---- MODULE Spec2Model ----
(***************************************************************************)
(* State-machine model of the orbo inference services:                     *)
(*   - the streaming session handlers of the gRPC servicers                *)
(*     (yolo-service/grpc_server.py, recognition-service/grpc_server.py),  *)
(*   - the LRU model cache and MultiTaskYOLOService._get_model             *)
(*     (yolo-service/main.py), as executed by concurrent worker threads,   *)
(*   - the tracking entry points of MultiTaskYOLOService as driven by      *)
(*     DetectStream, analyze, Configure, pose classification, HealthCheck, *)
(*   - the frame handling of the face recognition service                  *)
(*     (recognition-service/grpc_server.py, main.py),                      *)
(*   - the feature cache of the DINOv3 motion detector                     *)
(*     (services/dinov3/dinov3_service.py).                                *)
(* The specifications share the variables; each leaves the variables of    *)
(* the other parts unchanged.                                              *)
(***************************************************************************)
EXTENDS Integers, Sequences, FiniteSets, TLC

\* ------------------------------------------------------------------ bounds
NumSessions == 2
MaxFrames == 3
NumWorkers == 2
MaxEngines == 5
MaxTrackFrames == 3
MaxTasks == 3
MaxDinoCameras == 11

\* ------------------------------------------------------------- variables
VARIABLES
    \* streaming sessions
    active_streams,   \* servicer -> self.active_streams
    streams_lock,     \* servicer -> 0 (free) or the session holding self.streams_lock
    spc,              \* session -> position in the handler
    skind,            \* session -> which streaming handler runs it
    stream_id,        \* session -> local stream_id
    cur,              \* session -> the request being processed (NoReq when none)
    recvCnt,          \* session -> number of requests taken from request_iterator
    raisedCnt,        \* session -> number of requests whose processing raised
    respSeq,          \* session -> frame_seq of every response yielded, in order
    endedBy,          \* session -> how the for loop was left
    \* model cache and the workers inside MultiTaskYOLOService._get_model
    cache,            \* LRUModelCache.cache: sequence of [path, eng], first = oldest
    cpc,              \* worker -> position inside _get_model / LRUModelCache
    ckey,             \* worker -> model_path of the call
    cmodel,           \* worker -> local `model` (0 = None)
    cerr,             \* worker -> exception the call ended with ("" = none)
    nextEng,          \* identity of the next engine object YOLO(model_path) creates
    hit,              \* worker -> LRUModelCache.get found the key
    loadFailed,       \* worker -> YOLO(...)/model.to/warm-up raised in this call
    touched,          \* worker -> this call has modified the cache
    recency,          \* model paths ordered by their most recent access, oldest first
    lastEvict,        \* the last eviction: the victim and the least recently accessed key
    lastCall,         \* the last _get_model call made alone: its result and the cache before it
    \* tracking through DetectStream
    track_history,    \* MultiTaskYOLOService.track_history: camera -> (track id -> entry)
    tframes,          \* camera -> number of tracking frames processed
    obs,              \* camera -> what the camera's frames have shown of the tracked object
    tresp,            \* camera -> the last DetectionResponse yielded for it
    \* MultiTaskYOLOService.analyze
    areq,             \* the arguments of the last analyze call
    ares,             \* what the call did: tasks executed, results, layers drawn
    \* DetectionServicer configuration
    conf_threshold,   \* self.conf_threshold, in hundredths
    iou_threshold,    \* self.iou_threshold, in hundredths
    tracking_enabled, \* self.tracking_enabled
    tracker_type,     \* self.tracker_type
    classes_filter,   \* self.classes_filter
    cresp,            \* the ConfigureResponse of the last Configure call
    cleared,          \* the last class list configured was the explicit empty list
    used,             \* what the last frame was processed with
    \* pose classification and pose alerts
    pin,              \* the arguments of the _classify_pose call in progress
    pout,             \* its result
    presp,            \* the result of the last run_pose call
    \* DetectionServicer.HealthCheck
    hresp,            \* the last HealthResponse
    \* face recognition: FaceRecognitionService and FaceRecognitionServicer
    known_faces,      \* FaceRecognitionService.known_faces: name -> entry
    similarity_threshold,  \* FaceRecognitionServicer.similarity_threshold, in hundredths
    service_threshold,\* FaceRecognitionService.similarity_threshold, in hundredths
    rreq,             \* the FaceRequest being answered (NoFace when none)
    rresp,            \* what RecognizeStream did with it
    \* DINOv3Detector
    feature_cache,    \* DINOv3Detector.feature_cache: camera ids in insertion order
    dresp             \* the last DetectionResult of detect_motion_with_features

streamVars == <<active_streams, streams_lock, spc, skind, stream_id, cur,
                recvCnt, raisedCnt, respSeq, endedBy>>

cacheVars == <<cache, cpc, ckey, cmodel, cerr, nextEng, hit, loadFailed,
               touched, recency, lastEvict, lastCall>>

trackVars == <<track_history, tframes, obs, tresp>>

orchVars == <<areq, ares>>

confVars == <<conf_threshold, iou_threshold, tracking_enabled, tracker_type,
              classes_filter, cresp, cleared, used>>

poseVars == <<pin, pout, presp>>

healthVars == <<hresp>>

recogVars == <<known_faces, similarity_threshold, service_threshold, rreq, rresp>>

dinoVars == <<feature_cache, dresp>>

restVars == <<orchVars, confVars, poseVars, healthVars, recogVars, dinoVars>>

vars == <<streamVars, cacheVars, trackVars, restVars>>

\* ------------------------------------------------ streaming session model
Sessions == 1..NumSessions

Handlers == {"DetectStream", "AnalyzeStream", "RecognizeStream"}

\* DetectStream and AnalyzeStream are methods of one DetectionServicer and share
\* its counter; RecognizeStream belongs to the FaceRecognitionServicer.
Servicers == {"detection", "recognition"}

ServicerOf(h) == IF h = "RecognizeStream" THEN "recognition" ELSE "detection"

NoReq == [none |-> TRUE]

\* What a request is to the handler: whether its jpeg_data decodes, whether the
\* engine call made for it succeeds, and the two flags that select the code path.
Requests == [decodable : BOOLEAN, engine_ok : BOOLEAN,
             enable_tracking : BOOLEAN, return_annotated : BOOLEAN]

\* MultiTaskYOLOService.preprocess_image raises HTTPException(400) on undecodable data.
PreprocessRaises(req) == ~req.decodable

\* MultiTaskYOLOService.analyze: only preprocess_image is outside the per-task
\* try/except; a failing task is recorded as {"error": ...} and analyze returns.
AnalyzeRaises(req) == PreprocessRaises(req)

\* MultiTaskYOLOService.detect_objects: preprocess_image and run_detection both
\* propagate.
DetectObjectsRaises(req) == PreprocessRaises(req) \/ ~req.engine_ok

\* The body of the inner try of DetectStream: which service call is made.
DetectStreamRaises(req) ==
    LET use_tracking == req.enable_tracking /\ tracking_enabled
    IN  IF use_tracking \/ req.return_annotated
        THEN AnalyzeRaises(req)         \* detect_with_tracking / detect_and_annotate*
        ELSE DetectObjectsRaises(req)

\* The body of the inner try of AnalyzeStream.
AnalyzeStreamRaises(req) == AnalyzeRaises(req)

\* The body of the inner try of RecognizeStream: _recognize_in_regions,
\* detect_and_annotate and recognize_faces all re-raise.
RecognizeStreamRaises(req) == PreprocessRaises(req) \/ ~req.engine_ok

FrameRaises(h, req) ==
    CASE h = "DetectStream" -> DetectStreamRaises(req)
      [] h = "AnalyzeStream" -> AnalyzeStreamRaises(req)
      [] OTHER -> RecognizeStreamRaises(req)

StreamInit ==
    /\ active_streams = [v \in Servicers |-> 0]
    /\ streams_lock = [v \in Servicers |-> 0]
    /\ spc = [s \in Sessions |-> "new"]
    /\ skind = [s \in Sessions |-> "DetectStream"]
    /\ stream_id = [s \in Sessions |-> 0]
    /\ cur = [s \in Sessions |-> NoReq]
    /\ recvCnt = [s \in Sessions |-> 0]
    /\ raisedCnt = [s \in Sessions |-> 0]
    /\ respSeq = [s \in Sessions |-> <<>>]
    /\ endedBy = [s \in Sessions |-> "running"]

\* gRPC starts a handler for a new stream: `with self.streams_lock:` is entered.
OpenAcquire(s, h) ==
    /\ spc[s] = "new"
    /\ streams_lock[ServicerOf(h)] = 0
    /\ streams_lock' = [streams_lock EXCEPT ![ServicerOf(h)] = s]
    /\ skind' = [skind EXCEPT ![s] = h]
    /\ spc' = [spc EXCEPT ![s] = "open_locked"]
    /\ UNCHANGED <<active_streams, stream_id, cur, recvCnt, raisedCnt, respSeq, endedBy>>
    /\ UNCHANGED <<cacheVars, trackVars, restVars>>

\* self.active_streams += 1; stream_id = self.active_streams; the lock is released.
OpenIncrement(s) ==
    /\ spc[s] = "open_locked"
    /\ LET v == ServicerOf(skind[s])
       IN  /\ streams_lock[v] = s
           /\ active_streams' = [active_streams EXCEPT ![v] = @ + 1]
           /\ stream_id' = [stream_id EXCEPT ![s] = active_streams[v] + 1]
           /\ streams_lock' = [streams_lock EXCEPT ![v] = 0]
    /\ spc' = [spc EXCEPT ![s] = "recv"]
    /\ UNCHANGED <<skind, cur, recvCnt, raisedCnt, respSeq, endedBy>>
    /\ UNCHANGED <<cacheVars, trackVars, restVars>>

\* `for request in request_iterator:` yields the next request.
Receive(s, req) ==
    /\ spc[s] = "recv"
    /\ recvCnt[s] < MaxFrames
    /\ cur' = [cur EXCEPT ![s] = req]
    /\ recvCnt' = [recvCnt EXCEPT ![s] = @ + 1]
    /\ spc' = [spc EXCEPT ![s] = "proc"]
    /\ UNCHANGED <<active_streams, streams_lock, skind, stream_id, raisedCnt, respSeq, endedBy>>
    /\ UNCHANGED <<cacheVars, trackVars, restVars>>

\* Mutant of FrameFailed: the per-frame handler leaves the loop instead of continuing.
FrameFailedBreaks(s) ==
    /\ raisedCnt' = [raisedCnt EXCEPT ![s] = @ + 1]
    /\ cur' = [cur EXCEPT ![s] = NoReq]
    /\ spc' = [spc EXCEPT ![s] = "finally"]
    /\ UNCHANGED <<active_streams, streams_lock, skind, stream_id, recvCnt, respSeq, endedBy>>
    /\ UNCHANGED <<cacheVars, trackVars, restVars>>

\* Mutant of FrameFailed: the handler yields an empty response for the frame
\* that raised before it continues.
FrameFailedYieldsEmpty(s) ==
    /\ raisedCnt' = [raisedCnt EXCEPT ![s] = @ + 1]
    /\ respSeq' = [respSeq EXCEPT ![s] = Append(@, recvCnt[s])]
    /\ cur' = [cur EXCEPT ![s] = NoReq]
    /\ spc' = [spc EXCEPT ![s] = "recv"]
    /\ UNCHANGED <<active_streams, streams_lock, skind, stream_id, recvCnt, endedBy>>
    /\ UNCHANGED <<cacheVars, trackVars, restVars>>

\* The inner try raised: `except Exception: ... continue`.
FrameFailed(s) ==
    /\ raisedCnt' = [raisedCnt EXCEPT ![s] = @ + 1]
    /\ cur' = [cur EXCEPT ![s] = NoReq]
    /\ spc' = [spc EXCEPT ![s] = "recv"]
    /\ UNCHANGED <<active_streams, streams_lock, skind, stream_id, recvCnt, respSeq, endedBy>>
    /\ UNCHANGED <<cacheVars, trackVars, restVars>>

\* Mutant of FrameAnswered: `yield response` sits inside the loop over the
\* detections and runs twice for the frame.
FrameAnsweredTwice(s) ==
    /\ respSeq' = [respSeq EXCEPT ![s] = Append(Append(@, recvCnt[s]), recvCnt[s])]
    /\ cur' = [cur EXCEPT ![s] = NoReq]
    /\ spc' = [spc EXCEPT ![s] = "recv"]
    /\ UNCHANGED <<active_streams, streams_lock, skind, stream_id, recvCnt, raisedCnt, endedBy>>
    /\ UNCHANGED <<cacheVars, trackVars, restVars>>

\* The inner try completed: `yield response` with frame_seq=request.frame_seq
\* (the n-th request of the session carries frame_seq n).
FrameAnswered(s) ==
    /\ respSeq' = [respSeq EXCEPT ![s] = Append(@, recvCnt[s])]
    /\ cur' = [cur EXCEPT ![s] = NoReq]
    /\ spc' = [spc EXCEPT ![s] = "recv"]
    /\ UNCHANGED <<active_streams, streams_lock, skind, stream_id, recvCnt, raisedCnt, endedBy>>
    /\ UNCHANGED <<cacheVars, trackVars, restVars>>

\* One iteration of the loop body for the request taken by Receive.
Process(s) ==
    /\ spc[s] = "proc"
    /\ IF FrameRaises(skind[s], cur[s]) THEN FrameFailed(s) ELSE FrameAnswered(s)

\* request_iterator is exhausted (the peer half-closed): the for loop ends.
EndOfInput(s) ==
    /\ spc[s] = "recv"
    /\ spc' = [spc EXCEPT ![s] = "finally"]
    /\ endedBy' = [endedBy EXCEPT ![s] = "end_of_input"]
    /\ UNCHANGED <<active_streams, streams_lock, skind, stream_id, cur, recvCnt, raisedCnt, respSeq>>
    /\ UNCHANGED <<cacheVars, trackVars, restVars>>

\* Mutant of ChannelError: there is no outer try, the exception leaves the
\* handler at once.
ChannelErrorPropagates(s) ==
    /\ spc[s] = "recv"
    /\ spc' = [spc EXCEPT ![s] = "closed"]
    /\ endedBy' = [endedBy EXCEPT ![s] = "exception"]
    /\ UNCHANGED <<active_streams, streams_lock, skind, stream_id, cur, recvCnt, raisedCnt, respSeq>>
    /\ UNCHANGED <<cacheVars, trackVars, restVars>>

\* request_iterator raises (transport error): the outer `except Exception` logs it.
ChannelError(s) ==
    /\ spc[s] = "recv"
    /\ spc' = [spc EXCEPT ![s] = "finally"]
    /\ endedBy' = [endedBy EXCEPT ![s] = "exception"]
    /\ UNCHANGED <<active_streams, streams_lock, skind, stream_id, cur, recvCnt, raisedCnt, respSeq>>
    /\ UNCHANGED <<cacheVars, trackVars, restVars>>

\* finally: `with self.streams_lock:` is entered.
CloseAcquire(s) ==
    /\ spc[s] = "finally"
    /\ streams_lock[ServicerOf(skind[s])] = 0
    /\ streams_lock' = [streams_lock EXCEPT ![ServicerOf(skind[s])] = s]
    /\ spc' = [spc EXCEPT ![s] = "close_locked"]
    /\ UNCHANGED <<active_streams, skind, stream_id, cur, recvCnt, raisedCnt, respSeq, endedBy>>
    /\ UNCHANGED <<cacheVars, trackVars, restVars>>

\* Mutant of CloseDecrement: the decrement sits after the loop instead of in
\* `finally`, so it is skipped when the loop was left by an exception.
CloseDecrementNotFinally(s) ==
    /\ spc[s] = "close_locked"
    /\ LET v == ServicerOf(skind[s])
       IN  /\ streams_lock[v] = s
           /\ active_streams' = [active_streams EXCEPT
                                   ![v] = IF endedBy[s] = "exception" THEN @ ELSE @ - 1]
           /\ streams_lock' = [streams_lock EXCEPT ![v] = 0]
    /\ spc' = [spc EXCEPT ![s] = "closed"]
    /\ UNCHANGED <<skind, stream_id, cur, recvCnt, raisedCnt, respSeq, endedBy>>
    /\ UNCHANGED <<cacheVars, trackVars, restVars>>

\* self.active_streams -= 1; the lock is released and the handler returns.
CloseDecrement(s) ==
    /\ spc[s] = "close_locked"
    /\ LET v == ServicerOf(skind[s])
       IN  /\ streams_lock[v] = s
           /\ active_streams' = [active_streams EXCEPT ![v] = @ - 1]
           /\ streams_lock' = [streams_lock EXCEPT ![v] = 0]
    /\ spc' = [spc EXCEPT ![s] = "closed"]
    /\ UNCHANGED <<skind, stream_id, cur, recvCnt, raisedCnt, respSeq, endedBy>>
    /\ UNCHANGED <<cacheVars, trackVars, restVars>>

StreamNext ==
    \/ \E s \in Sessions, h \in Handlers : OpenAcquire(s, h)
    \/ \E s \in Sessions : OpenIncrement(s)
    \/ \E s \in Sessions, req \in Requests : Receive(s, req)
    \/ \E s \in Sessions : Process(s)
    \/ \E s \in Sessions : EndOfInput(s)
    \/ \E s \in Sessions : ChannelError(s)
    \/ \E s \in Sessions : CloseAcquire(s)
    \/ \E s \in Sessions : CloseDecrement(s)

\* ------------------------------------------- model cache and _get_model
Workers == 1..NumWorkers

\* YoloTask
Tasks == {"detect", "pose", "segment", "obb", "classify"}

\* MultiTaskYOLOService.enabled_tasks (ENABLED_TASKS of the deployment).
enabled_tasks == {"detect", "pose", "segment", "obb"}

\* MAX_CACHED_MODELS, default '3'.
max_size == 3

\* _get_model_path: TASK_MODEL_FILES[task].format(size=self.model_size), size 'n'.
ModelPath(task) ==
    CASE task = "detect" -> "yolo11n.pt"
      [] task = "pose" -> "yolo11n-pose.pt"
      [] task = "segment" -> "yolo11n-seg.pt"
      [] task = "obb" -> "yolo11n-obb.pt"
      [] OTHER -> "yolo11n-cls.pt"

NoPath == ""

\* `model_path in self.cache`
Has(c, k) == \E i \in 1..Len(c) : c[i].path = k

IndexOf(c, k) == CHOOSE i \in 1..Len(c) : c[i].path = k

\* self.cache[model_path]
EngOf(c, k) == c[IndexOf(c, k)].eng

Without(c, k) == SelectSeq(c, LAMBDA e : e.path # k)

\* Mutant of MoveToEnd: the key is moved to the oldest end.
MoveToFront(c, k) == <<c[IndexOf(c, k)]>> \o Without(c, k)

\* OrderedDict.move_to_end(model_path)
MoveToEnd(c, k) == Append(Without(c, k), c[IndexOf(c, k)])

\* OrderedDict.__setitem__: a new key is appended, an existing key keeps its place.
SetItem(c, k, m) ==
    IF Has(c, k)
    THEN [i \in 1..Len(c) |-> IF c[i].path = k THEN [path |-> k, eng |-> m] ELSE c[i]]
    ELSE Append(c, [path |-> k, eng |-> m])

\* Bookkeeping of accesses: k becomes the most recently accessed path.
Touch(r, k) == Append(SelectSeq(r, LAMBDA p : p # k), k)

\* The cached path whose most recent access is the oldest.
LeastRecentlyAccessed(c, r) ==
    LET cached == SelectSeq(r, LAMBDA p : Has(c, p))
    IN  IF cached = <<>> THEN NoPath ELSE Head(cached)

NoEvict == [victim |-> NoPath, lru |-> NoPath]

NoCall == [kind |-> "none", path |-> NoPath, model |-> 0, loaded |-> FALSE,
           before |-> <<>>]

\* After construction: _preload_models has loaded PRELOAD_TASKS ('detect').
CacheInit ==
    /\ cache = <<[path |-> ModelPath("detect"), eng |-> 1]>>
    /\ nextEng = 2
    /\ recency = <<ModelPath("detect")>>
    /\ lastEvict = NoEvict
    /\ cpc = [t \in Workers |-> "idle"]
    /\ ckey = [t \in Workers |-> NoPath]
    /\ cmodel = [t \in Workers |-> 0]
    /\ cerr = [t \in Workers |-> ""]
    /\ hit = [t \in Workers |-> FALSE]
    /\ loadFailed = [t \in Workers |-> FALSE]
    /\ touched = [t \in Workers |-> FALSE]
    /\ lastCall = NoCall

\* The call ends with an exception.
Raise(t, e) ==
    /\ cpc' = [cpc EXCEPT ![t] = "raised"]
    /\ cerr' = [cerr EXCEPT ![t] = e]
    /\ cmodel' = [cmodel EXCEPT ![t] = 0]

\* A worker enters _get_model(task): the enabled check and _get_model_path.
CallGetModel(t, task) ==
    /\ cpc[t] = "idle"
    /\ nextEng <= MaxEngines
    /\ ckey' = [ckey EXCEPT ![t] = ModelPath(task)]
    /\ IF task \notin enabled_tasks
       THEN Raise(t, "400")
       ELSE /\ cpc' = [cpc EXCEPT ![t] = "get_in"]
            /\ UNCHANGED <<cerr, cmodel>>
    /\ UNCHANGED <<cache, nextEng, hit, loadFailed, touched, recency, lastEvict>>
    /\ UNCHANGED <<streamVars, trackVars, lastCall, restVars>>

\* LRUModelCache.get: `if model_path in self.cache:`
GetContains(t) ==
    /\ cpc[t] = "get_in"
    /\ IF Has(cache, ckey[t])
       THEN /\ cpc' = [cpc EXCEPT ![t] = "get_move"]
            /\ hit' = [hit EXCEPT ![t] = TRUE]
       ELSE /\ cpc' = [cpc EXCEPT ![t] = "load"]
            /\ UNCHANGED hit
    /\ UNCHANGED <<cache, ckey, cmodel, cerr, nextEng, loadFailed, touched,
                   recency, lastEvict>>
    /\ UNCHANGED <<streamVars, trackVars, lastCall, restVars>>

\* LRUModelCache.get: `self.cache.move_to_end(model_path)`; KeyError when another
\* worker evicted the key since the membership test (get is outside the try).
GetMoveToEnd(t) ==
    /\ cpc[t] = "get_move"
    /\ IF Has(cache, ckey[t])
       THEN /\ cache' = MoveToEnd(cache, ckey[t])
            /\ recency' = Touch(recency, ckey[t])
            /\ touched' = [touched EXCEPT ![t] = TRUE]
            /\ cpc' = [cpc EXCEPT ![t] = "get_ret"]
            /\ UNCHANGED <<cerr, cmodel>>
       ELSE /\ Raise(t, "KeyError")
            /\ UNCHANGED <<cache, recency, touched>>
    /\ UNCHANGED <<ckey, nextEng, hit, loadFailed, lastEvict>>
    /\ UNCHANGED <<streamVars, trackVars, lastCall, restVars>>

\* LRUModelCache.get: `return self.cache[model_path]`, then `return model`.
GetReturn(t) ==
    /\ cpc[t] = "get_ret"
    /\ IF Has(cache, ckey[t])
       THEN /\ cmodel' = [cmodel EXCEPT ![t] = EngOf(cache, ckey[t])]
            /\ cpc' = [cpc EXCEPT ![t] = "infer"]
            /\ UNCHANGED cerr
       ELSE Raise(t, "KeyError")
    /\ UNCHANGED <<cache, ckey, nextEng, hit, loadFailed, touched, recency,
                   lastEvict>>
    /\ UNCHANGED <<streamVars, trackVars, lastCall, restVars>>

\* Mutant of LoadModel: the engine is put into the cache as soon as it is
\* constructed, before its warm-up has run.
LoadModelCachesFirst(t) ==
    /\ cpc[t] = "load"
    /\ \/ /\ cmodel' = [cmodel EXCEPT ![t] = nextEng]
          /\ nextEng' = nextEng + 1
          /\ cache' = SetItem(cache, ckey[t], nextEng)
          /\ touched' = [touched EXCEPT ![t] = TRUE]
          /\ cpc' = [cpc EXCEPT ![t] = "warm"]
          /\ UNCHANGED <<cerr, loadFailed>>
       \/ /\ Raise(t, "503")
          /\ loadFailed' = [loadFailed EXCEPT ![t] = TRUE]
          /\ UNCHANGED <<nextEng, cache, touched>>
    /\ UNCHANGED <<ckey, hit, recency, lastEvict>>
    /\ UNCHANGED <<streamVars, trackVars, lastCall, restVars>>

\* `model = YOLO(model_path); model.to(self.device)`: a new engine object, or an
\* exception, which the except turns into HTTPException(503).
LoadModel(t) ==
    /\ cpc[t] = "load"
    /\ \/ /\ cmodel' = [cmodel EXCEPT ![t] = nextEng]
          /\ nextEng' = nextEng + 1
          /\ cpc' = [cpc EXCEPT ![t] = "warm"]
          /\ UNCHANGED <<cerr, loadFailed>>
       \/ /\ Raise(t, "503")
          /\ loadFailed' = [loadFailed EXCEPT ![t] = TRUE]
          /\ UNCHANGED nextEng
    /\ UNCHANGED <<cache, ckey, hit, touched, recency, lastEvict>>
    /\ UNCHANGED <<streamVars, trackVars, lastCall, restVars>>

\* Warm up: `_ = model(dummy_image, ...)`.
WarmUp(t) ==
    /\ cpc[t] = "warm"
    /\ \/ /\ cpc' = [cpc EXCEPT ![t] = "put_in"]
          /\ UNCHANGED <<cmodel, cerr, loadFailed>>
       \/ /\ Raise(t, "503")
          /\ loadFailed' = [loadFailed EXCEPT ![t] = TRUE]
    /\ UNCHANGED <<cache, ckey, nextEng, hit, touched, recency, lastEvict>>
    /\ UNCHANGED <<streamVars, trackVars, lastCall, restVars>>

\* LRUModelCache.put: `if model_path in self.cache:`
PutContains(t) ==
    /\ cpc[t] = "put_in"
    /\ cpc' = [cpc EXCEPT ![t] = IF Has(cache, ckey[t]) THEN "put_move" ELSE "put_len"]
    /\ UNCHANGED <<cache, ckey, cmodel, cerr, nextEng, hit, loadFailed, touched,
                   recency, lastEvict>>
    /\ UNCHANGED <<streamVars, trackVars, lastCall, restVars>>

\* LRUModelCache.put: `self.cache.move_to_end(model_path); return`, after which
\* _get_model returns its own `model`. A KeyError here is inside the try: 503.
PutMoveToEnd(t) ==
    /\ cpc[t] = "put_move"
    /\ IF Has(cache, ckey[t])
       THEN /\ cache' = MoveToEnd(cache, ckey[t])
            /\ recency' = Touch(recency, ckey[t])
            /\ touched' = [touched EXCEPT ![t] = TRUE]
            /\ cpc' = [cpc EXCEPT ![t] = "infer"]
            /\ UNCHANGED <<cerr, cmodel>>
       ELSE /\ Raise(t, "503")
            /\ UNCHANGED <<cache, recency, touched>>
    /\ UNCHANGED <<ckey, nextEng, hit, loadFailed, lastEvict>>
    /\ UNCHANGED <<streamVars, trackVars, lastCall, restVars>>

\* LRUModelCache.put: `while len(self.cache) >= self.max_size:`
PutLen(t) ==
    /\ cpc[t] = "put_len"
    /\ cpc' = [cpc EXCEPT ![t] = IF Len(cache) >= max_size THEN "put_pop" ELSE "put_set"]
    /\ UNCHANGED <<cache, ckey, cmodel, cerr, nextEng, hit, loadFailed, touched,
                   recency, lastEvict>>
    /\ UNCHANGED <<streamVars, trackVars, lastCall, restVars>>

\* LRUModelCache.put: `self.cache.popitem(last=False)`; KeyError on an empty dict
\* (inside the try of _get_model: 503).
PutPopItem(t) ==
    /\ cpc[t] = "put_pop"
    /\ IF cache # <<>>
       THEN /\ cache' = Tail(cache)
            /\ lastEvict' = [victim |-> Head(cache).path,
                             lru |-> LeastRecentlyAccessed(cache, recency)]
            /\ touched' = [touched EXCEPT ![t] = TRUE]
            /\ cpc' = [cpc EXCEPT ![t] = "put_len"]
            /\ UNCHANGED <<cerr, cmodel>>
       ELSE /\ Raise(t, "503")
            /\ UNCHANGED <<cache, lastEvict, touched>>
    /\ UNCHANGED <<ckey, nextEng, hit, loadFailed, recency>>
    /\ UNCHANGED <<streamVars, trackVars, lastCall, restVars>>

\* LRUModelCache.put: `self.cache[model_path] = model`, then `return model`.
PutSetItem(t) ==
    /\ cpc[t] = "put_set"
    /\ cache' = SetItem(cache, ckey[t], cmodel[t])
    /\ recency' = Touch(recency, ckey[t])
    /\ touched' = [touched EXCEPT ![t] = TRUE]
    /\ cpc' = [cpc EXCEPT ![t] = "infer"]
    /\ UNCHANGED <<ckey, cmodel, cerr, nextEng, hit, loadFailed, lastEvict>>
    /\ UNCHANGED <<streamVars, trackVars, lastCall, restVars>>

\* The caller has run inference on the engine it was handed, or has handled the
\* exception: the call is over.
CallOver(t) ==
    /\ cpc[t] \in {"infer", "raised"}
    /\ cpc' = [cpc EXCEPT ![t] = "idle"]
    /\ ckey' = [ckey EXCEPT ![t] = NoPath]
    /\ cmodel' = [cmodel EXCEPT ![t] = 0]
    /\ cerr' = [cerr EXCEPT ![t] = ""]
    /\ hit' = [hit EXCEPT ![t] = FALSE]
    /\ loadFailed' = [loadFailed EXCEPT ![t] = FALSE]
    /\ touched' = [touched EXCEPT ![t] = FALSE]
    /\ UNCHANGED <<cache, nextEng, recency, lastEvict>>
    /\ UNCHANGED <<streamVars, trackVars, lastCall, restVars>>

CacheNext ==
    \/ \E t \in Workers, task \in Tasks : CallGetModel(t, task)
    \/ \E t \in Workers : GetContains(t)
    \/ \E t \in Workers : GetMoveToEnd(t)
    \/ \E t \in Workers : GetReturn(t)
    \/ \E t \in Workers : LoadModel(t)
    \/ \E t \in Workers : WarmUp(t)
    \/ \E t \in Workers : PutContains(t)
    \/ \E t \in Workers : PutMoveToEnd(t)
    \/ \E t \in Workers : PutLen(t)
    \/ \E t \in Workers : PutPopItem(t)
    \/ \E t \in Workers : PutSetItem(t)
    \/ \E t \in Workers : CallOver(t)

\* ---------------------------------- _get_model, one call at a time
\* With GRPC_PORT <= 0 the gRPC server is not started and the service is driven
\* by the REST handlers alone, which call it one after the other on the single
\* event loop (workers=1): every _get_model call runs from entry to return
\* before the next one starts.

\* Mutant of LRUGet: the hit does not update the LRU order.
LRUGetNoMove(c, k) ==
    IF Has(c, k) THEN [cache |-> c, model |-> EngOf(c, k)] ELSE [cache |-> c, model |-> 0]

\* LRUModelCache.get: the cache after the call and the value returned (0 = None).
LRUGet(c, k) ==
    IF Has(c, k)
    THEN [cache |-> MoveToEnd(c, k), model |-> EngOf(MoveToEnd(c, k), k)]
    ELSE [cache |-> c, model |-> 0]

\* LRUModelCache.put: `while len(self.cache) >= self.max_size: popitem(last=False)`
RECURSIVE EvictWhileFull(_)
EvictWhileFull(c) ==
    IF Len(c) >= max_size /\ c # <<>> THEN EvictWhileFull(Tail(c)) ELSE c

\* LRUModelCache.put
LRUPut(c, k, m) ==
    IF Has(c, k)
    THEN MoveToEnd(c, k)
    ELSE Append(EvictWhileFull(c), [path |-> k, eng |-> m])

\* The eviction a put makes, if any: its (first) victim and the cached path that
\* was least recently accessed when the put started.
EvictionOf(c, k, r) ==
    IF ~Has(c, k) /\ Len(EvictWhileFull(c)) < Len(c)
    THEN [victim |-> Head(c).path, lru |-> LeastRecentlyAccessed(c, r)]
    ELSE lastEvict

\* _get_model(task) returning an engine: from the cache on a hit, else loaded,
\* warmed up and put into the cache.
GetModelReturns(task) ==
    /\ task \in enabled_tasks
    /\ LET k == ModelPath(task)
           g == LRUGet(cache, k)
       IN  IF g.model # 0
           THEN /\ cache' = g.cache
                /\ lastCall' = [kind |-> "ok", path |-> k, model |-> g.model,
                                loaded |-> FALSE, before |-> cache]
                /\ recency' = Touch(recency, k)
                /\ UNCHANGED <<nextEng, lastEvict>>
           ELSE /\ nextEng <= MaxEngines
                /\ cache' = LRUPut(g.cache, k, nextEng)
                /\ nextEng' = nextEng + 1
                /\ lastEvict' = EvictionOf(g.cache, k, recency)
                /\ lastCall' = [kind |-> "ok", path |-> k, model |-> nextEng,
                                loaded |-> TRUE, before |-> cache]
                /\ recency' = Touch(recency, k)
    /\ UNCHANGED <<cpc, ckey, cmodel, cerr, hit, loadFailed, touched>>
    /\ UNCHANGED <<streamVars, trackVars, restVars>>

\* _get_model(task) on a miss when YOLO(model_path), model.to or the warm-up
\* raises: `except Exception` raises HTTPException(503).
GetModelLoadFails(task) ==
    /\ task \in enabled_tasks
    /\ LET k == ModelPath(task)
           g == LRUGet(cache, k)
       IN  /\ g.model = 0
           /\ cache' = g.cache
           /\ lastCall' = [kind |-> "503", path |-> k, model |-> 0, loaded |-> FALSE,
                           before |-> cache]
    /\ UNCHANGED <<nextEng, recency, lastEvict>>
    /\ UNCHANGED <<cpc, ckey, cmodel, cerr, hit, loadFailed, touched>>
    /\ UNCHANGED <<streamVars, trackVars, restVars>>

\* _get_model(task) for a task outside enabled_tasks: HTTPException(400).
GetModelNotEnabled(task) ==
    /\ task \notin enabled_tasks
    /\ lastCall' = [kind |-> "400", path |-> NoPath, model |-> 0, loaded |-> FALSE,
                    before |-> cache]
    /\ UNCHANGED <<cache, nextEng, recency, lastEvict>>
    /\ UNCHANGED <<cpc, ckey, cmodel, cerr, hit, loadFailed, touched>>
    /\ UNCHANGED <<streamVars, trackVars, restVars>>

SeqCacheNext ==
    \/ \E task \in Tasks : GetModelReturns(task)
    \/ \E task \in Tasks : GetModelLoadFails(task)
    \/ \E task \in Tasks : GetModelNotEnabled(task)

\* ------------------------------------------------ tracking via DetectStream
Cameras == {"cam1", "cam2"}

\* The identity a tracker gives the object in the scene (0: none).
TrackIds == {0, 7}

CenterXs == {100, 110, 130}

\* A tracking frame: one object, its box centred at (cx, 100), sent by one of the
\* sessions that stream the camera.
TrackFrames ==
    [track_id : TrackIds, cx : CenterXs, return_annotated : BOOLEAN, session : Sessions]

BoxOf(f) == <<f.cx - 10, 90, f.cx + 10, 110>>

\* run_detection: the engine is called as model(image, ...), in detection mode;
\* each detection carries class, confidence, bbox, center and area, no track id.
RunDetection(f) ==
    LET bbox == BoxOf(f)
    IN  <<[class |-> "person",
           bbox |-> bbox,
           center |-> <<(bbox[1] + bbox[3]) \div 2, (bbox[2] + bbox[4]) \div 2>>,
           area |-> (bbox[3] - bbox[1]) * (bbox[4] - bbox[2])]>>

\* analyze(tasks=["detect"]): result["tasks"]["detect"] = run_detection(...).
AnalyzeDetect(f) == [detections |-> RunDetection(f)]

\* detect_with_tracking / detect_and_annotate_with_tracking: the detections of
\* analyze and "tracks": [] (placeholder); self.track_history is not used.
DetectWithTracking(camera_id, f) ==
    [detections |-> AnalyzeDetect(f).detections, tracks |-> <<>>]

\* DetectStream, building the response: det.get('track_id', 0),
\* det.get('velocity_x', 0.0), det.get('velocity_y', 0.0); one TrackUpdate per
\* entry of result_info['tracks'].
\* dict.get(key, default)
Get(d, key, default) == IF key \in DOMAIN d THEN d[key] ELSE default

\* Mutant of BuildDetections: the velocity of a detection defaults to its centre.
BuildDetectionsVelocityFromCenter(dets) ==
    [i \in 1..Len(dets) |->
        [class_name |-> Get(dets[i], "class", ""),
         bbox |-> Get(dets[i], "bbox", <<0, 0, 0, 0>>),
         track_id |-> Get(dets[i], "track_id", 0),
         velocity |-> <<Get(dets[i], "velocity_x", dets[i].center[1]),
                        Get(dets[i], "velocity_y", dets[i].center[2])>>]]

BuildDetections(dets) ==
    [i \in 1..Len(dets) |->
        [class_name |-> Get(dets[i], "class", ""),
         bbox |-> Get(dets[i], "bbox", <<0, 0, 0, 0>>),
         track_id |-> Get(dets[i], "track_id", 0),
         velocity |-> <<Get(dets[i], "velocity_x", 0), Get(dets[i], "velocity_y", 0)>>]]

BuildTracks(tracks) ==
    [i \in 1..Len(tracks) |->
        [track_id |-> Get(tracks[i], "track_id", 0),
         state |-> Get(tracks[i], "state", "unknown"),
         age |-> Get(tracks[i], "age", 0),
         time_since_update |-> Get(tracks[i], "time_since_update", 0)]]

NoResp == [none |-> TRUE]

\* What the frames of a camera have shown so far of track id 7: how often it
\* appeared, in how many frames in a row it has been missing, its last centre and
\* the centre difference of its last appearance, and the sessions whose frames
\* showed it.
NoObs == [n |-> 0, unseen |-> 0, last |-> <<0, 0>>, vel |-> <<0, 0>>, sessions |-> {}]

Observe(o, f) ==
    LET c == <<f.cx, 100>>
    IN  IF f.track_id > 0
        THEN [n |-> o.n + 1, unseen |-> 0, last |-> c,
              vel |-> IF o.n = 0 THEN <<0, 0>> ELSE <<c[1] - o.last[1], c[2] - o.last[2]>>,
              sessions |-> o.sessions \cup {f.session}]
        ELSE IF o.n = 0 THEN o ELSE [o EXCEPT !.unseen = @ + 1]

TrackInit ==
    /\ track_history = <<>>
    /\ tframes = [c \in Cameras |-> 0]
    /\ obs = [c \in Cameras |-> NoObs]
    /\ tresp = [c \in Cameras |-> NoResp]

\* One iteration of DetectStream for a decodable frame of camera c with
\* request.enable_tracking and self.tracking_enabled.
DetectStreamTrackingFrame(c, f) ==
    /\ tracking_enabled
    /\ tframes[c] < MaxTrackFrames
    /\ LET result_info == DetectWithTracking(c, f)
       IN  tresp' = [tresp EXCEPT ![c] =
                        [camera_id |-> c, frame_seq |-> tframes[c] + 1, frame |-> f,
                         detections |-> BuildDetections(result_info.detections),
                         tracks |-> BuildTracks(result_info.tracks)]]
    /\ tframes' = [tframes EXCEPT ![c] = @ + 1]
    /\ obs' = [obs EXCEPT ![c] = Observe(@, f)]
    /\ UNCHANGED track_history
    /\ UNCHANGED <<streamVars, cacheVars, restVars>>

\* ------------------------------------------- MultiTaskYOLOService.analyze
\* Task names a caller may put in the `tasks` list.
TaskNames == Tasks \cup {"bogus", "POSE"}

\* str.lower()
Lower(name) == IF name = "POSE" THEN "pose" ELSE name

TASK_DRAW_ORDER == <<"segment", "obb", "detect", "pose">>

\* Mutant of ValidTasks: a task is not checked against enabled_tasks.
ValidTasksAnyKnown(tasks) ==
    LET known == SelectSeq([i \in 1..Len(tasks) |-> Lower(tasks[i])],
                           LAMBDA n : n \in Tasks)
    IN  IF known = <<>> THEN <<"detect">> ELSE known

\* analyze, "Parse and validate tasks": YoloTask(task_name.lower()) raises
\* ValueError for an unknown name (skipped), a task outside enabled_tasks is
\* skipped, and an empty result falls back to [YoloTask.DETECT].
ValidTasks(tasks) ==
    LET valid == SelectSeq([i \in 1..Len(tasks) |-> Lower(tasks[i])],
                           LAMBDA n : n \in Tasks /\ n \in enabled_tasks)
    IN  IF valid = <<>> THEN <<"detect">> ELSE valid

\* key=lambda t: TASK_DRAW_ORDER.index(t) if t in TASK_DRAW_ORDER else 99
DrawKey(t) ==
    IF \E i \in 1..Len(TASK_DRAW_ORDER) : TASK_DRAW_ORDER[i] = t
    THEN (CHOOSE i \in 1..Len(TASK_DRAW_ORDER) : TASK_DRAW_ORDER[i] = t) - 1
    ELSE 99

\* sorted() is stable: t goes behind every element whose key is not greater.
RECURSIVE InsertByKey(_, _)
InsertByKey(t, s) ==
    IF s = <<>> THEN <<t>>
    ELSE IF DrawKey(Head(s)) <= DrawKey(t)
         THEN <<Head(s)>> \o InsertByKey(t, Tail(s))
         ELSE <<t>> \o s

\* Mutant of SortedTasks: the tasks run in the order of the request.
UnsortedTasks(valid_tasks) == valid_tasks

RECURSIVE SortedTasks(_)
SortedTasks(valid_tasks) ==
    IF valid_tasks = <<>> THEN <<>>
    ELSE InsertByKey(valid_tasks[Len(valid_tasks)],
                     SortedTasks(SubSeq(valid_tasks, 1, Len(valid_tasks) - 1)))

\* What running a task does: "ok", or "raises" when _get_model (HTTPException
\* 503) or the inference raises.
Outcomes == {"ok", "raises"}

\* Mutant of RunTasks: an exception of a task is not caught per task; it ends
\* the loop and leaves analyze.
RunTasksAbortOnError(sorted_tasks, outcome, annotated) ==
    LET failed == {i \in 1..Len(sorted_tasks) : outcome[sorted_tasks[i]] = "raises"}
        upto == IF failed = {} THEN Len(sorted_tasks)
                ELSE (CHOOSE i \in failed : \A j \in failed : i <= j) - 1
        ran == SubSeq(sorted_tasks, 1, upto)
    IN  [tasks |-> [t \in {ran[i] : i \in 1..Len(ran)} |-> [result |-> t]],
         drawn |-> SelectSeq(ran, LAMBDA t : annotated /\ t # "classify"),
         raised |-> failed # {}]

\* analyze, `for task in sorted_tasks:`: the task's run_* result is stored and
\* its layer drawn on the annotated frame (classification draws nothing); an
\* exception is caught and stored as {"error": str(e)}.
RunTasks(sorted_tasks, outcome, annotated) ==
    [tasks |-> [t \in {sorted_tasks[i] : i \in 1..Len(sorted_tasks)} |->
                   IF outcome[t] = "raises" THEN [error |-> t] ELSE [result |-> t]],
     drawn |-> SelectSeq(sorted_tasks,
                         LAMBDA t : annotated /\ outcome[t] = "ok" /\ t # "classify"),
     raised |-> FALSE]

NoAnalyze == [none |-> TRUE]

OrchInit ==
    /\ areq = NoAnalyze
    /\ ares = NoAnalyze

\* One call of analyze(image_data, tasks, ..., return_annotated), up to its
\* `return results` (or the exception of preprocess_image).
Analyze(tasks, outcome, decodable, annotated) ==
    /\ areq = NoAnalyze
    /\ areq' = [tasks |-> tasks, outcome |-> outcome, decodable |-> decodable,
                return_annotated |-> annotated]
    /\ IF ~decodable
       THEN ares' = [raised |-> TRUE, tasks_executed |-> <<>>, tasks |-> <<>>,
                     drawn |-> <<>>]
       ELSE LET sorted_tasks == SortedTasks(ValidTasks(tasks))
                run == RunTasks(sorted_tasks, outcome, annotated)
            IN  ares' = [raised |-> run.raised,
                         tasks_executed |-> IF run.raised THEN <<>> ELSE sorted_tasks,
                         tasks |-> run.tasks,
                         drawn |-> run.drawn]
    /\ UNCHANGED <<streamVars, cacheVars, trackVars, confVars, poseVars, healthVars,
                 recogVars, dinoVars>>

\* The caller has taken the result (or the exception) of the call.
AnalyzeReturn ==
    /\ areq # NoAnalyze
    /\ areq' = NoAnalyze
    /\ ares' = NoAnalyze
    /\ UNCHANGED <<streamVars, cacheVars, trackVars, confVars, poseVars, healthVars,
                 recogVars, dinoVars>>

TaskLists == UNION {[1..n -> TaskNames] : n \in 0..MaxTasks}

\* The values of the protocol's YoloTask enum, 0 = UNSPECIFIED .. 5 = CLASSIFY, and
\* one value the servicer does not know.
ProtoTasks == 0..6

\* DetectionServicer._proto_task_to_string: task_map.get(task, "detect")
ProtoTaskToString(task) ==
    CASE task = 2 -> "pose"
      [] task = 3 -> "segment"
      [] task = 4 -> "obb"
      [] task = 5 -> "classify"
      [] OTHER -> "detect"

ProtoTaskLists == UNION {[1..n -> ProtoTasks] : n \in 0..MaxTasks}

\* AnalyzeStream: tasks = [self._proto_task_to_string(t) for t in request.tasks],
\* ["detect"] when empty, handed to analyze.
AnalyzeStreamCall(proto_tasks, outcome, decodable, annotated) ==
    LET tasks == [i \in 1..Len(proto_tasks) |-> ProtoTaskToString(proto_tasks[i])]
    IN  Analyze(IF tasks = <<>> THEN <<"detect">> ELSE tasks, outcome, decodable, annotated)

OrchNext ==
    \/ /\ areq = NoAnalyze
       /\ \E tasks \in TaskLists, outcome \in [Tasks -> Outcomes],
             decodable \in BOOLEAN, annotated \in BOOLEAN :
              Analyze(tasks, outcome, decodable, annotated)
    \/ /\ areq = NoAnalyze
       /\ \E proto_tasks \in ProtoTaskLists, outcome \in [Tasks -> Outcomes],
             decodable \in BOOLEAN, annotated \in BOOLEAN :
              AnalyzeStreamCall(proto_tasks, outcome, decodable, annotated)
    \/ AnalyzeReturn

\* ------------------------------------ Configure and the per-frame settings
\* CONF_THRESHOLD of the deployment (default '0.5'), in hundredths.
CONF_THRESHOLD == 50

\* CLASSES_FILTER of the deployment: both the servicer and the service read it.
CLASSES_FILTER == <<"person">>

\* Optional[List[str]]: None, or a list of names.
None == [set |-> FALSE, names |-> <<>>]

ListOf(names) == [set |-> TRUE, names |-> names]

\* Python truth value of an Optional[List[str]]
Truthy(f) == f.set /\ f.names # <<>>

\* c.strip().lower()
StripLower(c) ==
    CASE c = " " -> ""
      [] c = "Person" -> "person"
      [] OTHER -> c

\* [c.strip().lower() for c in classes if c.strip()]
Normalized(classes) ==
    SelectSeq([i \in 1..Len(classes) |-> StripLower(classes[i])], LAMBDA c : c # "")

\* MultiTaskYOLOService._load_default_classes_filter
default_classes_filter ==
    IF CLASSES_FILTER # <<>> THEN ListOf(Normalized(CLASSES_FILTER)) ELSE None

\* model.names of the detection engine (COCO): the ids of the names it knows.
NameToId(name) ==
    CASE name = "person" -> 0
      [] name = "car" -> 2
      [] OTHER -> -1

\* _get_class_ids: None (every class) for no filter or no known name.
GetClassIds(f) ==
    IF ~Truthy(f) THEN [set |-> FALSE, ids |-> {}]
    ELSE LET ids == {NameToId(f.names[i]) : i \in 1..Len(f.names)} \ {-1}
         IN  IF ids = {} THEN [set |-> FALSE, ids |-> {}] ELSE [set |-> TRUE, ids |-> ids]

\* run_detection: effective_filter = classes_filter or self.default_classes_filter
EffectiveFilter(f) == IF Truthy(f) THEN f ELSE default_classes_filter

ConfValues == {30, 70}

ConfigureClasses == {<<>>, <<"car">>, <<"Person">>, <<" ">>}

\* An optional field of a request: <<>> when not set (HasField is false), else <<v>>.
HasField(req, f) == req[f] # <<>>

\* ConfigureRequest: the optional scalar fields and the repeated field classes.
ConfigureRequests ==
    [has_conf : BOOLEAN, conf : ConfValues, classes : ConfigureClasses,
     iou_threshold : {<<>>, <<60>>},
     enable_tracking : {<<>>, <<FALSE>>, <<TRUE>>},
     tracker_type : {<<>>, <<"botsort">>},
     box_color : {<<>>, <<"#FF0000">>},
     box_thickness : {<<>>, <<3>>}]

\* conf_threshold 0 or negative: use the default; the class filter of an
\* AnalyzeRequest may be empty.
FrameRequests == [conf_threshold : {-10, 0, 30}, classes_filter : {<<>>, <<"car">>},
                  enable_tracking : BOOLEAN]

\* IOU_THRESHOLD, default '0.45', in hundredths
IOU_THRESHOLD == 45

\* TRACKER_TYPE as the deployment sets it
TRACKER_TYPE == "bytetrack"

\* MultiTaskYOLOService.box_color (BOX_COLOR, default '#0066FF') and box_thickness
\* (BOX_THICKNESS, default '2'): assigned in __init__ and nowhere else.
box_color == "#0066FF"

box_thickness == 2

NoConfigure == [none |-> TRUE]

NoUse == [none |-> TRUE]

ConfInit ==
    /\ conf_threshold = CONF_THRESHOLD
    /\ iou_threshold = IOU_THRESHOLD
    /\ tracking_enabled = (TRACKER_TYPE # "")
    /\ tracker_type = TRACKER_TYPE
    /\ classes_filter = IF CLASSES_FILTER # <<>> THEN ListOf(Normalized(CLASSES_FILTER)) ELSE None
    /\ cresp = NoConfigure
    /\ cleared = FALSE
    /\ used = NoUse

\* self.service.set_box_color / set_box_thickness: MultiTaskYOLOService defines
\* neither method, so the call raises AttributeError.
SetBoxRaises(req) == HasField(req, "box_color") \/ HasField(req, "box_thickness")

\* DetectionServicer.Configure: the assignments in the order of the code, then the
\* box calls; an exception there is answered with success=False. `used` starts
\* anew: no frame has been processed since this call.
Configure(req) ==
    /\ conf_threshold' = IF req.has_conf THEN req.conf ELSE conf_threshold
    /\ iou_threshold' = IF HasField(req, "iou_threshold") THEN req.iou_threshold[1]
                        ELSE iou_threshold
    /\ tracking_enabled' = IF HasField(req, "enable_tracking") THEN req.enable_tracking[1]
                           ELSE tracking_enabled
    /\ tracker_type' = IF HasField(req, "tracker_type") THEN req.tracker_type[1]
                       ELSE tracker_type
    /\ classes_filter' = IF Len(req.classes) > 0 THEN ListOf(Normalized(req.classes))
                         ELSE None
    /\ cleared' = IF Len(req.classes) = 0 THEN TRUE
                  ELSE IF Normalized(req.classes) # <<>> THEN FALSE ELSE cleared
    /\ cresp' = IF SetBoxRaises(req) THEN [success |-> FALSE]
                ELSE [success |-> TRUE,
                      conf_threshold |-> conf_threshold',
                      iou_threshold |-> iou_threshold',
                      tracking_enabled |-> tracking_enabled',
                      tracker_type |-> tracker_type']
    /\ used' = NoUse
    /\ UNCHANGED <<streamVars, cacheVars, trackVars, orchVars, poseVars, healthVars,
                 recogVars, dinoVars>>

\* Mutant of ResolveConf: the default is the one read at start-up.
ResolveConfStartupDefault(request_conf) ==
    IF request_conf > 0 THEN request_conf ELSE CONF_THRESHOLD

\* request.conf_threshold if request.conf_threshold > 0 else self.conf_threshold
ResolveConf(request_conf) ==
    IF request_conf > 0 THEN request_conf ELSE conf_threshold

\* What the frame is processed with: the arguments the handler passes, the class
\* ids run_detection hands to the engine, the branch the handler takes, and the
\* service's box attributes. The engine call carries no iou argument and the
\* tracking methods take no tracker: both are recorded as <<>>.
UsedFor(h, req, conf, filter, use_tracking) ==
    [handler |-> h, request |-> req, conf |-> conf, classes_filter |-> filter,
     class_ids |-> GetClassIds(EffectiveFilter(filter)), cleared |-> cleared,
     iou |-> <<>>, use_tracking |-> use_tracking, tracker |-> <<>>,
     box_color |-> box_color, box_thickness |-> box_thickness]

\* One frame of DetectStream: classes_filter=self.classes_filter.
DetectStreamFrame(req) ==
    /\ req.classes_filter = <<>>
    /\ used' = UsedFor("DetectStream", req, ResolveConf(req.conf_threshold), classes_filter,
                       req.enable_tracking /\ tracking_enabled)
    /\ UNCHANGED <<conf_threshold, iou_threshold, tracking_enabled, tracker_type,
                   classes_filter, cresp, cleared>>
    /\ UNCHANGED <<streamVars, cacheVars, trackVars, orchVars, poseVars, healthVars,
                 recogVars, dinoVars>>

\* One frame of AnalyzeStream:
\* list(request.classes_filter) if request.classes_filter else self.classes_filter
AnalyzeStreamFrame(req) ==
    /\ ~req.enable_tracking
    /\ used' = UsedFor("AnalyzeStream", req, ResolveConf(req.conf_threshold),
                       IF req.classes_filter # <<>> THEN ListOf(req.classes_filter)
                       ELSE classes_filter,
                       FALSE)
    /\ UNCHANGED <<conf_threshold, iou_threshold, tracking_enabled, tracker_type,
                   classes_filter, cresp, cleared>>
    /\ UNCHANGED <<streamVars, cacheVars, trackVars, orchVars, poseVars, healthVars,
                 recogVars, dinoVars>>

ConfNext ==
    \/ \E req \in ConfigureRequests : Configure(req)
    \/ \E req \in FrameRequests : DetectStreamFrame(req)
    \/ \E req \in FrameRequests : AnalyzeStreamFrame(req)

\* ------------------------------------------------- _classify_pose, run_pose
\* The keypoints of KEYPOINT_NAMES that _classify_pose reads.
UsedKeypoints == {"nose", "left_shoulder", "right_shoulder", "left_wrist", "right_wrist",
                  "left_hip", "right_hip", "left_ankle", "right_ankle"}

\* Two Y positions per keypoint, chosen to reach both sides of every threshold.
YsOf(name) ==
    CASE name = "nose" -> <<250, 300>>
      [] name \in {"left_shoulder", "right_shoulder"} -> <<100, 190>>
      [] name \in {"left_wrist", "right_wrist"} -> <<40, 60>>
      [] name \in {"left_hip", "right_hip"} -> <<200, 210>>
      [] OTHER -> <<210, 400>>

\* A keypoint entry and its confidence (in hundredths): not trusted (0.30), trusted
\* with an entry that has no Y coordinate, or trusted with one of its Y positions.
PointChoices == 1..4

PointOf(name, k) ==
    CASE k = 1 -> [conf |-> 30, xy |-> <<0, 0>>]
      [] k = 2 -> [conf |-> 90, xy |-> <<0>>]
      [] OTHER -> [conf |-> 90, xy |-> <<0, YsOf(name)[k - 2]>>]

AnyPoints == [name \in UsedKeypoints |-> [conf |-> 90, xy |-> <<0, 0>>]]

\* The arguments of _classify_pose: len(keypoints), len(confidences) and the
\* entries it reads.
PoseChoices == [UsedKeypoints -> PointChoices]

\* A full set of keypoints, one choice per keypoint read.
FullPose(c) == [nk |-> 17, nc |-> 17, pts |-> [n \in UsedKeypoints |-> PointOf(n, c[n])]]

\* Inputs of any length, well-formed entries.
ShortPoseInputs ==
    {[nk |-> a, nc |-> b, pts |-> AnyPoints] : a \in {0, 16, 17}, b \in {0, 16, 17}}

\* Optional number: None or a value.
NoneY == <<>>

SomeY(v) == <<v>>

\* Mutant of TooShort: only the keypoint list is measured.
TooShortKeypointsOnly(inp) == inp.nk < 17

\* if len(keypoints) < 17 or len(confidences) < 17
TooShort(inp) == inp.nk < 17 \/ inp.nc < 17

\* kp: the names whose confidence is > 0.3
TrustedKeypoints(inp) == {n \in UsedKeypoints : inp.pts[n].conf > 30}

\* The entries whose [1] is read inside the try.
ReadKeypoints(inp) ==
    LET kp == TrustedKeypoints(inp)
        pair(l, r) == IF l \in kp /\ r \in kp THEN {l, r} ELSE {}
    IN  ({"nose", "left_wrist", "right_wrist"} \cap kp)
            \cup pair("left_hip", "right_hip")
            \cup pair("left_shoulder", "right_shoulder")
            \cup pair("left_ankle", "right_ankle")

\* xy[1] raises IndexError for an entry without a Y coordinate.
MetricsRaise(inp) == \E n \in ReadKeypoints(inp) : Len(inp.pts[n].xy) < 2

\* Y positions are kept in half pixels, so that the centre of a pair, (a + b) / 2,
\* is the integer a + b.
Abs(v) == IF v < 0 THEN -v ELSE v

\* The measurements: nose_y, hip_y, shoulder_y, ankle_y (None when not known) and
\* the wrist positions (default 9999).
Measure(inp) ==
    LET kp == TrustedKeypoints(inp)
        y(n) == inp.pts[n].xy[2]
        centre(l, r) == IF l \in kp /\ r \in kp THEN SomeY(y(l) + y(r)) ELSE NoneY
    IN  [nose_y |-> IF "nose" \in kp THEN SomeY(2 * y("nose")) ELSE NoneY,
         hip_y |-> centre("left_hip", "right_hip"),
         shoulder_y |-> centre("left_shoulder", "right_shoulder"),
         ankle_y |-> centre("left_ankle", "right_ankle"),
         left_wrist_y |-> IF "left_wrist" \in kp THEN 2 * y("left_wrist") ELSE 2 * 9999,
         right_wrist_y |-> IF "right_wrist" \in kp THEN 2 * y("right_wrist") ELSE 2 * 9999]

\* Mutant of FallenRule: the comparison includes equality.
FallenRuleAtLeast(m) ==
    /\ m.nose_y # NoneY
    /\ m.hip_y # NoneY
    /\ m.nose_y[1] >= m.hip_y[1] + 2 * 50

\* nose_y is not None and hip_y is not None and nose_y > hip_y + 50
FallenRule(m) ==
    /\ m.nose_y # NoneY
    /\ m.hip_y # NoneY
    /\ m.nose_y[1] > m.hip_y[1] + 2 * 50

BodyKnown(m) == m.shoulder_y # NoneY /\ m.hip_y # NoneY /\ m.ankle_y # NoneY

\* torso_height > leg_height * 1.5 and leg_height < 100
CrouchingRule(m) ==
    /\ BodyKnown(m)
    /\ 2 * Abs(m.hip_y[1] - m.shoulder_y[1]) > 3 * Abs(m.ankle_y[1] - m.hip_y[1])
    /\ Abs(m.ankle_y[1] - m.hip_y[1]) < 2 * 100

\* abs(shoulder_y - hip_y) < 30
LyingRule(m) ==
    /\ BodyKnown(m)
    /\ Abs(m.shoulder_y[1] - m.hip_y[1]) < 2 * 30

\* left_wrist_y < shoulder_y - 50 and right_wrist_y < shoulder_y - 50
ArmsRaisedRule(m) ==
    /\ m.shoulder_y # NoneY
    /\ m.left_wrist_y < m.shoulder_y[1] - 2 * 50
    /\ m.right_wrist_y < m.shoulder_y[1] - 2 * 50

\* result["metrics"]: the four positions, and torso_height and leg_height once
\* the fall test has not returned and shoulders, hips and ankles are known.
MetricsOf(m) ==
    {<<"nose_y", m.nose_y>>, <<"shoulder_y", m.shoulder_y>>,
     <<"hip_y", m.hip_y>>, <<"ankle_y", m.ankle_y>>}
        \cup IF ~FallenRule(m) /\ BodyKnown(m)
             THEN {<<"torso_height", SomeY(Abs(m.hip_y[1] - m.shoulder_y[1]))>>,
                   <<"leg_height", SomeY(Abs(m.ankle_y[1] - m.hip_y[1]))>>}
             ELSE {}

\* Mutant of PoseLabel: the lying test stands before the crouching test.
PoseLabelLyingFirst(m) ==
    IF FallenRule(m) THEN [class |-> "fallen", confidence |-> 90]
    ELSE IF LyingRule(m) THEN [class |-> "lying", confidence |-> 85]
    ELSE IF CrouchingRule(m) THEN [class |-> "crouching", confidence |-> 80]
    ELSE IF ArmsRaisedRule(m) THEN [class |-> "arms_raised", confidence |-> 80]
    ELSE [class |-> "standing", confidence |-> 90]

\* "Pose classification logic": the chain of tests, each returning at once.
PoseLabel(m) ==
    IF FallenRule(m) THEN [class |-> "fallen", confidence |-> 90]
    ELSE IF CrouchingRule(m) THEN [class |-> "crouching", confidence |-> 80]
    ELSE IF LyingRule(m) THEN [class |-> "lying", confidence |-> 85]
    ELSE IF ArmsRaisedRule(m) THEN [class |-> "arms_raised", confidence |-> 80]
    ELSE [class |-> "standing", confidence |-> 90]

\* Mutant of ClassifyFailed: the exception leaves _classify_pose.
ClassifyFailedPropagates == [class |-> "raised", confidence |-> 0, metrics |-> {}]

\* except Exception: class "unknown", confidence 0.0; metrics is still {} because
\* every read that can raise stands before result["metrics"] is assigned.
ClassifyFailed == [class |-> "unknown", confidence |-> 0, metrics |-> {}]

\* _classify_pose(keypoints, confidences, bbox); confidence in hundredths.
ClassifyPoseResult(inp) ==
    IF TooShort(inp) THEN [class |-> "unknown", confidence |-> 0, metrics |-> {}]
    ELSE IF MetricsRaise(inp) THEN ClassifyFailed
    ELSE LET m == Measure(inp)
             label == PoseLabel(m)
         IN  [class |-> label.class, confidence |-> label.confidence,
              metrics |-> MetricsOf(m)]

NoPose == [none |-> TRUE]

PoseInit ==
    /\ pin = NoPose
    /\ pout = NoPose
    /\ presp = NoPose

\* One call of _classify_pose on its own, up to its return.
ClassifyPose(inp) ==
    /\ pin = NoPose
    /\ presp = NoPose
    /\ pin' = inp
    /\ pout' = ClassifyPoseResult(inp)
    /\ UNCHANGED presp
    /\ UNCHANGED <<streamVars, cacheVars, trackVars, orchVars, confVars, healthVars,
                 recogVars, dinoVars>>

\* The caller has taken the result.
ClassifyPoseReturn ==
    /\ pin # NoPose
    /\ pin' = NoPose
    /\ pout' = NoPose
    /\ UNCHANGED presp
    /\ UNCHANGED <<streamVars, cacheVars, trackVars, orchVars, confVars, healthVars,
                 recogVars, dinoVars>>

\* A person standing at the bottom of a frame more than 10400 pixels high: the
\* keypoints of PointOf, 10000 pixels further down.
TallFrameOffset == 10000

TallPointOf(name, k) ==
    LET p == PointOf(name, k)
    IN  IF Len(p.xy) = 2 /\ k >= 3 THEN [p EXCEPT !.xy = <<0, p.xy[2] + TallFrameOffset>>]
        ELSE p

TallPose(c) ==
    [nk |-> 17, nc |-> 17, pts |-> [n \in UsedKeypoints |-> TallPointOf(n, c[n])]]

\* _classify_pose on the persons of a very high frame.
TallPoseNext ==
    \/ /\ pin = NoPose
       /\ presp = NoPose
       /\ \E c \in PoseChoices : ClassifyPose(TallPose(c))
    \/ ClassifyPoseReturn

\* Largest number of persons the pose engine finds in one frame.
MaxPoses == 3

\* The keypoints of one person with nose, shoulders, wrists, hips and ankles given
\* by their PointChoices.
PersonOf(nose, sh, wr, hip, ank) ==
    [nk |-> 17, nc |-> 17,
     pts |-> [n \in UsedKeypoints |->
                 PointOf(n, CASE n = "nose" -> nose
                              [] n \in {"left_shoulder", "right_shoulder"} -> sh
                              [] n \in {"left_wrist", "right_wrist"} -> wr
                              [] n \in {"left_hip", "right_hip"} -> hip
                              [] OTHER -> ank)]]

\* Persons the engine reports (r.keypoints[i]): one fallen, one crouching, one
\* lying, one with raised arms, one standing, one with a truncated keypoint list.
Persons ==
    {PersonOf(4, 1, 1, 3, 1), PersonOf(1, 3, 1, 3, 3), PersonOf(1, 4, 1, 3, 4),
     PersonOf(1, 3, 3, 1, 1), PersonOf(1, 1, 1, 1, 1),
     [nk |-> 16, nc |-> 16, pts |-> AnyPoints]}

PoseFrames == UNION {[1..n -> Persons] : n \in 0..MaxPoses}

\* ALERT_ON_POSES, default 'fallen,crouching'
alert_on_poses == {"fallen", "crouching"}

\* The alert appended for the pose just appended to poses (pose_index is
\* len(poses) - 1), or nothing.
AlertsOfPoseIndexAmongAlerts(poses, alerts) ==
    LET a == poses[Len(poses)]
    IN IF a.pose_class \in alert_on_poses
       THEN <<[type |-> a.pose_class \o "_detected",
               severity |-> IF a.pose_class = "fallen" THEN "high" ELSE "medium",
               pose_index |-> Len(alerts),
               confidence |-> a.pose_confidence]>>
       ELSE <<>>

AlertsOfPose(poses, alerts) ==
    LET a == poses[Len(poses)]
    IN IF a.pose_class \in alert_on_poses
       THEN <<[type |-> a.pose_class \o "_detected",
               severity |-> IF a.pose_class = "fallen" THEN "high" ELSE "medium",
               pose_index |-> Len(poses) - 1,
               confidence |-> a.pose_confidence]>>
       ELSE <<>>

\* The loop of run_pose over the first i persons: poses and alerts so far.
RECURSIVE PoseLoop(_, _)
PoseLoop(frame, i) ==
    IF i = 0 THEN [poses |-> <<>>, alerts |-> <<>>]
    ELSE LET before == PoseLoop(frame, i - 1)
             analysis == ClassifyPoseResult(frame[i])
             poses == Append(before.poses,
                             [pose_class |-> analysis.class,
                              pose_confidence |-> analysis.confidence,
                              body_metrics |-> analysis.metrics])
         IN [poses |-> poses,
             alerts |-> before.alerts \o AlertsOfPose(poses, before.alerts)]

\* run_pose: {"poses", "count", "alerts"} with poses and alerts fresh per call.
RunPoseResult(frame) ==
    LET r == PoseLoop(frame, Len(frame))
    IN [poses |-> r.poses, count |-> Len(r.poses), alerts |-> r.alerts]

\* One frame of AnalyzeStream with task pose: run_pose through analyze, then the
\* alert type strings appended to the frame's fresh response.
PoseFrame(frame) ==
    /\ pin = NoPose
    /\ LET r == RunPoseResult(frame)
       IN presp' = [frame |-> frame,
                    result |-> r,
                    alerts |-> [k \in 1..Len(r.alerts) |-> r.alerts[k].type]]
    /\ UNCHANGED <<pin, pout>>
    /\ UNCHANGED <<streamVars, cacheVars, trackVars, orchVars, confVars, healthVars,
                 recogVars, dinoVars>>

\* The stream carrying the pose frames has ended.
PoseStreamEnd ==
    /\ presp # NoPose
    /\ presp' = NoPose
    /\ UNCHANGED <<pin, pout>>
    /\ UNCHANGED <<streamVars, cacheVars, trackVars, orchVars, confVars, healthVars,
                 recogVars, dinoVars>>

PoseNext ==
    \/ /\ pin = NoPose
       /\ presp = NoPose
       /\ \E c \in PoseChoices : ClassifyPose(FullPose(c))
    \/ /\ pin = NoPose
       /\ presp = NoPose
       /\ \E inp \in ShortPoseInputs : ClassifyPose(inp)
    \/ ClassifyPoseReturn
    \/ /\ pin = NoPose
       /\ \E frame \in PoseFrames : PoseFrame(frame)
    \/ PoseStreamEnd

\* ------------------------------------------------------------ HealthCheck
\* MultiTaskYOLOService.model_loaded: len(self.model_cache.get_loaded_models()) > 0
model_loaded == Len(cache) > 0

NoHealth == [none |-> TRUE]

HealthInit == hresp = NoHealth

\* PRELOAD_TASKS set to '': _preload_models returns at once and the cache starts
\* empty; engines are loaded by the first frames that need them.
LazyCacheInit ==
    /\ cache = <<>>
    /\ nextEng = 1
    /\ recency = <<>>
    /\ lastEvict = NoEvict
    /\ cpc = [t \in Workers |-> "idle"]
    /\ ckey = [t \in Workers |-> NoPath]
    /\ cmodel = [t \in Workers |-> 0]
    /\ cerr = [t \in Workers |-> ""]
    /\ hit = [t \in Workers |-> FALSE]
    /\ loadFailed = [t \in Workers |-> FALSE]
    /\ touched = [t \in Workers |-> FALSE]
    /\ lastCall = NoCall

\* Mutant of HealthCheck: the status does not depend on the cache.
HealthCheckAlwaysHealthy ==
    /\ hresp' = [status |-> "healthy",
                 model_loaded |-> model_loaded,
                 tracker_type |-> IF tracking_enabled THEN tracker_type ELSE "",
                 active_streams |-> active_streams["detection"]]
    /\ UNCHANGED <<streamVars, cacheVars, trackVars, orchVars, confVars, poseVars,
                 recogVars, dinoVars>>

\* DetectionServicer.HealthCheck, called while no _get_model call is in progress;
\* self.active_streams is read without the lock.
HealthCheck ==
    /\ hresp' = [status |-> IF model_loaded THEN "healthy" ELSE "unhealthy",
                 model_loaded |-> model_loaded,
                 tracker_type |-> IF tracking_enabled THEN tracker_type ELSE "",
                 active_streams |-> active_streams["detection"]]
    /\ UNCHANGED <<streamVars, cacheVars, trackVars, orchVars, confVars, poseVars,
                 recogVars, dinoVars>>

\* A frame that decodes and whose engine call succeeds.
GoodFrame == [decodable |-> TRUE, engine_ok |-> TRUE,
              enable_tracking |-> FALSE, return_annotated |-> FALSE]

\* Sessions opening, streaming and closing, the detection engine being loaded by
\* a frame, and health requests, in any order.
HealthNext ==
    \/ \E s \in Sessions, h \in Handlers : OpenAcquire(s, h)
    \/ \E s \in Sessions : OpenIncrement(s)
    \/ \E s \in Sessions : Receive(s, GoodFrame)
    \/ \E s \in Sessions : Process(s)
    \/ \E s \in Sessions : EndOfInput(s)
    \/ \E s \in Sessions : ChannelError(s)
    \/ \E s \in Sessions : CloseAcquire(s)
    \/ \E s \in Sessions : CloseDecrement(s)
    \/ GetModelReturns("detect")
    \/ HealthCheck

\* ------------------------------------------------ face recognition service
\* Similarities and thresholds are in hundredths; region coordinates of a
\* request are floats and are held in half pixels; everything measured on the
\* decoded image is in pixels.
SIMILARITY_THRESHOLD == 50

Names == {"ann", "bob"}

\* Embedding vectors, by identity of the vector; NoEmbedding is face.embedding = None.
Embeddings == 1..3

NoEmbedding == 0

\* FaceRecognitionService._compute_similarity_single for the vectors above.
ComputeSimilaritySingle(embedding1, embedding2) ==
    CASE embedding1 = embedding2 -> 100
      [] embedding1 - embedding2 \in {1, -1} -> 60
      [] OTHER -> 20

SeqMax(seq) ==
    CHOOSE m \in {seq[i] : i \in DOMAIN seq} : \A i \in DOMAIN seq : seq[i] <= m

\* FaceRecognitionService._compute_similarity: the best of the stored embeddings.
ComputeSimilarity(query_embedding, stored_embeddings) ==
    IF stored_embeddings = <<>>
    THEN 0
    ELSE SeqMax([i \in DOMAIN stored_embeddings |->
                    ComputeSimilaritySingle(query_embedding, stored_embeddings[i])])

\* An entry of the registry as register_face writes it.
NewEntry(name, embedding) == [name |-> name, data |-> [embeddings |-> <<embedding>>]]

\* The databases load_known_faces can find on disk: none, or identities in the
\* old single-embedding format or in the multi-embedding format.
DiskEntries(name) ==
    {[name |-> name, data |-> [embedding |-> 1]],
     [name |-> name, data |-> [embeddings |-> <<1, 3>>]]}

DiskDatabases ==
    {<<>>} \cup {<<a>> : a \in DiskEntries("ann")}
           \cup {<<a, b>> : a \in DiskEntries("ann"), b \in DiskEntries("bob")}

\* load_known_faces: an entry in the old format is migrated to the new one.
MigrateEntry(entry) ==
    IF "embedding" \in DOMAIN entry.data /\ "embeddings" \notin DOMAIN entry.data
    THEN [name |-> entry.name, data |-> [embeddings |-> <<entry.data.embedding>>]]
    ELSE entry

LoadKnownFaces(db) == [i \in DOMAIN db |-> MigrateEntry(db[i])]

\* What a decoded frame shows: faces with their full-frame boxes <<x1, y1, x2, y2>>.
FrameShape == [h |-> 6, w |-> 8]

FaceLeft == [bbox |-> <<1, 1, 3, 3>>, embedding |-> 1]

FaceRight == [bbox |-> <<5, 2, 7, 4>>, embedding |-> 2]

FaceBlurred == [bbox |-> <<5, 2, 7, 4>>, embedding |-> NoEmbedding]

Scenes ==
    {[decodable |-> TRUE, faces |-> <<>>],
     [decodable |-> TRUE, faces |-> <<FaceLeft>>],
     [decodable |-> TRUE, faces |-> <<FaceLeft, FaceRight>>],
     [decodable |-> TRUE, faces |-> <<FaceBlurred>>],
     [decodable |-> FALSE, faces |-> <<>>]}

\* Person regions a request can carry, in half pixels: one reaching over the
\* left edge, one reaching over the right and bottom edges, one outside the frame.
PersonRegions ==
    {[x1 |-> -3, y1 |-> 0, x2 |-> 9, y2 |-> 12],
     [x1 |-> 9, y1 |-> 3, x2 |-> 40, y2 |-> 30],
     [x1 |-> 18, y1 |-> 0, x2 |-> 24, y2 |-> 12]}

PersonTrackIds == {7, 9}

UpTo2(S) == {<<>>} \cup {<<a>> : a \in S} \cup {<<a, b>> : a \in S, b \in S}

FaceRequests ==
    [scene : Scenes,
     person_regions : UpTo2(PersonRegions),
     person_track_ids : UpTo2(PersonTrackIds),
     similarity_threshold : {0, 80},
     return_annotated : BOOLEAN]

NoFace == [kind |-> "none"]

\* int() of a float held in half pixels: truncation towards zero.
IntOf(half) == IF half >= 0 THEN half \div 2 ELSE -((-half) \div 2)

MaxOf(a, b) == IF a >= b THEN a ELSE b

MinOf(a, b) == IF a <= b THEN a ELSE b

\* The crop of _recognize_in_regions for one region, clipped to the image.
CropOf(region) ==
    [x1 |-> MaxOf(0, IntOf(region.x1)),
     y1 |-> MaxOf(0, IntOf(region.y1)),
     x2 |-> MinOf(FrameShape.w, IntOf(region.x2)),
     y2 |-> MinOf(FrameShape.h, IntOf(region.y2))]

EmptyCrop(crop) == crop.x2 <= crop.x1 \/ crop.y2 <= crop.y1

InsideCrop(face, crop) ==
    /\ crop.x1 <= face.bbox[1] /\ face.bbox[3] <= crop.x2
    /\ crop.y1 <= face.bbox[2] /\ face.bbox[4] <= crop.y2

\* face_app.get on image[y1:y2, x1:x2]: the faces that lie inside the crop,
\* with boxes relative to the crop's corner.
FaceAppGetCrop(scene, crop) ==
    LET inside == SelectSeq(scene.faces, LAMBDA f : InsideCrop(f, crop))
    IN  [i \in DOMAIN inside |->
            [bbox |-> <<inside[i].bbox[1] - crop.x1, inside[i].bbox[2] - crop.y1,
                        inside[i].bbox[3] - crop.x1, inside[i].bbox[4] - crop.y1>>,
             embedding |-> inside[i].embedding]]

\* face_app.get on the whole image.
FaceAppGet(scene) == scene.faces

\* The best match of the full-frame paths: first identity with the greatest
\* similarity above 0.0, over all stored embeddings of every identity.
RECURSIVE BestOver(_, _, _, _)
BestOver(embedding, registry, best_match, best_similarity) ==
    IF registry = <<>>
    THEN [best_match |-> best_match, best_similarity |-> best_similarity]
    ELSE LET similarity == ComputeSimilarity(embedding, Head(registry).data.embeddings)
         IN  IF similarity > best_similarity
             THEN BestOver(embedding, Tail(registry), Head(registry).name, similarity)
             ELSE BestOver(embedding, Tail(registry), best_match, best_similarity)

Unknown(bbox, track_id) ==
    [bbox |-> bbox, identity |-> "", similarity |-> 0, is_known |-> FALSE,
     associated_track_id |-> track_id]

\* The matching of recognize_faces and detect_and_annotate for one face.
MatchFullFrame(face, registry, threshold) ==
    IF face.embedding # NoEmbedding /\ Len(registry) > 0
    THEN LET best == BestOver(face.embedding, registry, "", 0)
         IN  IF best.best_similarity >= threshold
             THEN [bbox |-> face.bbox, identity |-> best.best_match,
                   similarity |-> best.best_similarity, is_known |-> TRUE,
                   associated_track_id |-> 0]
             ELSE Unknown(face.bbox, 0)
    ELSE Unknown(face.bbox, 0)

\* recognize_faces and detect_and_annotate(recognize=True): the threshold is
\* the service's own field.
RecognizeFaces(scene, registry, own_threshold) ==
    [i \in DOMAIN FaceAppGet(scene) |->
        MatchFullFrame(FaceAppGet(scene)[i], registry, own_threshold)]

\* The matching loop of _recognize_in_regions reads data['embedding'] of the
\* first identity: a KeyError for an entry of the registry's format.
RegionLookupRaises(face, registry) ==
    /\ face.embedding # NoEmbedding
    /\ Len(registry) > 0
    /\ "embedding" \notin DOMAIN registry[1].data

RegionFaces(scene, region) ==
    IF EmptyCrop(CropOf(region)) THEN <<>> ELSE FaceAppGetCrop(scene, CropOf(region))

\* _recognize_in_regions raises when the lookup of any face it reaches does.
RegionsRaise(scene, person_regions, registry) ==
    \E i \in DOMAIN person_regions :
        \E k \in DOMAIN RegionFaces(scene, person_regions[i]) :
            RegionLookupRaises(RegionFaces(scene, person_regions[i])[k], registry)

TrackIdOf(track_ids, i) == IF i <= Len(track_ids) THEN track_ids[i] ELSE 0

\* The recognition of one face found in a crop, the lookup not raising: the
\* box is moved back by the crop's corner.
RegionRecognition(face, crop, track_id) ==
    Unknown(<<face.bbox[1] + crop.x1, face.bbox[2] + crop.y1,
              face.bbox[3] + crop.x1, face.bbox[4] + crop.y1>>, track_id)

RECURSIVE RecognizeInRegionsFrom(_, _, _, _)
RecognizeInRegionsFrom(scene, person_regions, track_ids, i) ==
    IF i > Len(person_regions)
    THEN <<>>
    ELSE LET faces == RegionFaces(scene, person_regions[i])
             found == [k \in DOMAIN faces |->
                          RegionRecognition(faces[k], CropOf(person_regions[i]),
                                            TrackIdOf(track_ids, i))]
         IN  found \o RecognizeInRegionsFrom(scene, person_regions, track_ids, i + 1)

RecognizeInRegions(scene, person_regions, track_ids) ==
    RecognizeInRegionsFrom(scene, person_regions, track_ids, 1)

KnownCount(recognitions) ==
    Cardinality({i \in DOMAIN recognitions : recognitions[i].is_known})

FaceResponse(req, recognitions) ==
    [kind |-> "response", faces |-> recognitions,
     total_count |-> Len(recognitions),
     known_count |-> KnownCount(recognitions),
     unknown_count |-> Len(recognitions) - KnownCount(recognitions),
     annotated |-> req.return_annotated /\ req.person_regions = <<>>]

FrameSkipped == [kind |-> "raised"]

\* The threshold RecognizeStream resolves for a frame.
ResolvedThreshold(req, default_threshold) ==
    IF req.similarity_threshold > 0 THEN req.similarity_threshold ELSE default_threshold

\* One frame of RecognizeStream: the request goes to _recognize_in_regions
\* (with the resolved threshold, which is used only after the lookup), to
\* detect_and_annotate or to recognize_faces (both without it); a frame whose
\* processing raises is logged and gets no response.
RecognizeStreamResult(req, registry, default_threshold, own_threshold) ==
    LET threshold == ResolvedThreshold(req, default_threshold)
    IN  IF ~req.scene.decodable
        THEN FrameSkipped
        ELSE IF req.person_regions # <<>>
             THEN IF RegionsRaise(req.scene, req.person_regions, registry)
                  THEN FrameSkipped
                  ELSE FaceResponse(req, RecognizeInRegions(req.scene, req.person_regions,
                                                            req.person_track_ids))
             ELSE FaceResponse(req, RecognizeFaces(req.scene, registry, own_threshold))

RecogInit ==
    /\ known_faces = <<>>
    /\ similarity_threshold = SIMILARITY_THRESHOLD
    /\ service_threshold = SIMILARITY_THRESHOLD
    /\ rreq = NoFace
    /\ rresp = NoFace

\* The service starts on whatever database is on disk.
LoadedRecogInit ==
    /\ known_faces \in {LoadKnownFaces(db) : db \in DiskDatabases}
    /\ similarity_threshold = SIMILARITY_THRESHOLD
    /\ service_threshold = SIMILARITY_THRESHOLD
    /\ rreq = NoFace
    /\ rresp = NoFace

RecognizeStreamFrame(req) ==
    /\ rreq' = req
    /\ rresp' = RecognizeStreamResult(req, known_faces, similarity_threshold,
                                      service_threshold)
    /\ UNCHANGED <<known_faces, similarity_threshold, service_threshold>>
    /\ UNCHANGED <<streamVars, cacheVars, trackVars, orchVars, confVars, poseVars,
                   healthVars, dinoVars>>

\* The response has been taken; the stream waits for the next frame.
RecognizeStreamNextFrame ==
    /\ rreq # NoFace
    /\ rreq' = NoFace
    /\ rresp' = NoFace
    /\ UNCHANGED <<known_faces, similarity_threshold, service_threshold>>
    /\ UNCHANGED <<streamVars, cacheVars, trackVars, orchVars, confVars, poseVars,
                   healthVars, dinoVars>>

IndexOfName(registry, name) ==
    IF \E i \in DOMAIN registry : registry[i].name = name
    THEN CHOOSE i \in DOMAIN registry : registry[i].name = name
    ELSE 0

\* register_face between two frames, with an image of exactly one face: the
\* identity's entry is written, in place when the name is already registered.
RegisterFace(name, embedding) ==
    /\ rreq = NoFace
    /\ known_faces' =
         IF IndexOfName(known_faces, name) = 0
         THEN Append(known_faces, NewEntry(name, embedding))
         ELSE [known_faces EXCEPT ![IndexOfName(known_faces, name)] =
                   NewEntry(name, embedding)]
    /\ UNCHANGED <<similarity_threshold, service_threshold, rreq, rresp>>
    /\ UNCHANGED <<streamVars, cacheVars, trackVars, orchVars, confVars, poseVars,
                   healthVars, dinoVars>>

\* FaceRecognitionServicer.Configure with the similarity_threshold field set.
ConfigureSimilarity(threshold) ==
    /\ rreq = NoFace
    /\ similarity_threshold' = threshold
    /\ service_threshold' = threshold
    /\ UNCHANGED <<known_faces, rreq, rresp>>
    /\ UNCHANGED <<streamVars, cacheVars, trackVars, orchVars, confVars, poseVars,
                   healthVars, dinoVars>>

\* POST /config/threshold of the REST interface, which shares the service
\* object: only the service's field is written.
SetThreshold(threshold) ==
    /\ rreq = NoFace
    /\ service_threshold' = threshold
    /\ UNCHANGED <<known_faces, similarity_threshold, rreq, rresp>>
    /\ UNCHANGED <<streamVars, cacheVars, trackVars, orchVars, confVars, poseVars,
                   healthVars, dinoVars>>

RecogNext ==
    \/ /\ rreq = NoFace
       /\ \E req \in FaceRequests : RecognizeStreamFrame(req)
    \/ RecognizeStreamNextFrame
    \/ \E name \in Names, embedding \in {1, 2} : RegisterFace(name, embedding)
    \/ \E threshold \in {SIMILARITY_THRESHOLD, 70} : ConfigureSimilarity(threshold)
    \/ \E threshold \in {SIMILARITY_THRESHOLD, 70} : SetThreshold(threshold)

\* ------------------------------------------------ DINOv3 motion detector
max_cache_size == 10

DinoCameras == 0..(MaxDinoCameras - 1)

NoDetection == [kind |-> "none"]

DinoInit ==
    /\ feature_cache = <<>>
    /\ dresp = NoDetection

Cached(camera_id) == \E i \in DOMAIN feature_cache : feature_cache[i] = camera_id

\* DINOv3Detector._cleanup_cache: one entry, the oldest, goes when the cache
\* is over its size.
CleanupCache(c) == IF Len(c) > max_cache_size THEN Tail(c) ELSE c

\* detect_motion_with_features. The features stored under a camera id do not
\* affect which ids are held, so the cache is modelled by its keys in insertion
\* order. The first frame of a camera stores and returns; a later frame
\* compares, stores under the existing key and cleans up.
DetectMotionWithFeatures(camera_id) ==
    /\ IF ~Cached(camera_id)
       THEN /\ feature_cache' = Append(feature_cache, camera_id)
            /\ dresp' = [kind |-> "first", camera_id |-> camera_id,
                         motion_detected |-> FALSE]
       ELSE /\ feature_cache' = CleanupCache(feature_cache)
            /\ \E m \in BOOLEAN : dresp' = [kind |-> "compared", camera_id |-> camera_id,
                                              motion_detected |-> m]
    /\ UNCHANGED <<streamVars, cacheVars, trackVars, orchVars, confVars, poseVars,
                   healthVars, recogVars>>

\* The cache keeps no trace of a camera it does not hold, so the camera ids
\* outside it are interchangeable: a first frame comes from the least of them.
FirstFrameCameras ==
    LET out == {c \in DinoCameras : ~Cached(c)}
    IN  {c \in out : \A d \in out : c <= d}

DinoNext ==
    \/ \E camera_id \in FirstFrameCameras : DetectMotionWithFeatures(camera_id)
    \/ \E camera_id \in {c \in DinoCameras : Cached(c)} : DetectMotionWithFeatures(camera_id)

Init ==
    /\ StreamInit /\ CacheInit /\ TrackInit /\ OrchInit /\ ConfInit /\ PoseInit /\ HealthInit
    /\ RecogInit /\ DinoInit

TallPoseSpec == Init /\ [][TallPoseNext]_vars

\* A deployment with or without preloading, its sessions and its health requests.
DeploymentInit ==
    /\ StreamInit /\ TrackInit /\ OrchInit /\ ConfInit /\ PoseInit /\ HealthInit
    /\ RecogInit /\ DinoInit
    /\ (CacheInit \/ LazyCacheInit)

HealthSpec == DeploymentInit /\ [][HealthNext]_vars


Next == StreamNext

Spec == Init /\ [][Next]_vars

\* gRPC starts the handler of a new stream on the worker thread that a closed
\* session has given back to the pool.
NewStream(s) ==
    /\ spc[s] = "closed"
    /\ spc' = [spc EXCEPT ![s] = "new"]
    /\ stream_id' = [stream_id EXCEPT ![s] = 0]
    /\ cur' = [cur EXCEPT ![s] = NoReq]
    /\ recvCnt' = [recvCnt EXCEPT ![s] = 0]
    /\ raisedCnt' = [raisedCnt EXCEPT ![s] = 0]
    /\ respSeq' = [respSeq EXCEPT ![s] = <<>>]
    /\ endedBy' = [endedBy EXCEPT ![s] = "running"]
    /\ UNCHANGED <<active_streams, streams_lock, skind>>
    /\ UNCHANGED <<cacheVars, trackVars, restVars>>

\* Streams opening and closing over and over on the threads of the pool.
PoolNext ==
    \/ \E s \in Sessions, h \in Handlers : OpenAcquire(s, h)
    \/ \E s \in Sessions : OpenIncrement(s)
    \/ \E s \in Sessions : Receive(s, GoodFrame)
    \/ \E s \in Sessions : Process(s)
    \/ \E s \in Sessions : EndOfInput(s)
    \/ \E s \in Sessions : ChannelError(s)
    \/ \E s \in Sessions : CloseAcquire(s)
    \/ \E s \in Sessions : CloseDecrement(s)
    \/ \E s \in Sessions : NewStream(s)

PoolSpec == Init /\ [][PoolNext]_vars

\* A frame that does not decode.
BadFrame == [decodable |-> FALSE, engine_ok |-> TRUE,
             enable_tracking |-> FALSE, return_annotated |-> FALSE]

\* The steps of the sessions, their frames being one that is answered or one
\* whose processing raises.
LiveNext ==
    \/ \E s \in Sessions, h \in Handlers : OpenAcquire(s, h)
    \/ \E s \in Sessions : OpenIncrement(s)
    \/ \E s \in Sessions, req \in {GoodFrame, BadFrame} : Receive(s, req)
    \/ \E s \in Sessions : Process(s)
    \/ \E s \in Sessions : EndOfInput(s)
    \/ \E s \in Sessions : ChannelError(s)
    \/ \E s \in Sessions : CloseAcquire(s)
    \/ \E s \in Sessions : CloseDecrement(s)

\* The sessions with every handler thread scheduled: the processing of a frame
\* terminates, a thread waiting for streams_lock gets it once it stays free, and
\* a thread holding it leaves the `with` block. When requests arrive and when the
\* input side ends is up to the peer.
LiveSpec ==
    /\ Init
    /\ [][LiveNext]_vars
    /\ \A s \in Sessions :
           /\ WF_vars(OpenIncrement(s))
           /\ WF_vars(Process(s))
           /\ WF_vars(CloseAcquire(s))
           /\ WF_vars(CloseDecrement(s))

\* The worker threads of the gRPC pool inside _get_model, in any interleaving.
CacheSpec == Init /\ [][CacheNext]_vars

\* _get_model called one call at a time, in any order of tasks.
SeqCacheSpec == Init /\ [][SeqCacheNext]_vars

\* analyze called with any task list, any task raising.
OrchSpec == Init /\ [][OrchNext]_vars

\* Configure calls and frames of the detection streams, in any order.
ConfSpec == Init /\ [][ConfNext]_vars

\* _classify_pose applied to any input.
PoseSpec == Init /\ [][PoseNext]_vars

TrackNext == \E c \in Cameras, f \in TrackFrames : DetectStreamTrackingFrame(c, f)

\* A session per camera streaming tracking frames through DetectStream.
TrackSpec == Init /\ [][TrackNext]_vars

\* The recognition service started on any of the databases.
RecogDeploymentInit ==
    /\ StreamInit /\ CacheInit /\ TrackInit /\ OrchInit /\ ConfInit /\ PoseInit /\ HealthInit
    /\ LoadedRecogInit /\ DinoInit

RecogSpec == RecogDeploymentInit /\ [][RecogNext]_vars

DinoSpec == Init /\ [][DinoNext]_vars

\* ------------------------------------------------------------------ claims

\* Positions of a session inside its `try` (after Open, before Closed).
InLoop == {"recv", "proc"}

LeftLoop == {"finally", "close_locked", "closed"}

IsOpen(s) == spc[s] \in InLoop \cup {"finally", "close_locked"}

\* C1: a frame whose processing raises does not end the session. Between two
\* frames the number of responses emitted is the number of frames received minus
\* the number that raised, and a session leaves its receive loop only because the
\* input side ended (end of input or a channel error), never because of a frame.
C1_FrameFailureContained ==
    \A s \in Sessions :
        /\ spc[s] \in {"recv"} \cup LeftLoop =>
               Len(respSeq[s]) = recvCnt[s] - raisedCnt[s]
        /\ spc[s] \in LeftLoop => endedBy[s] \in {"end_of_input", "exception"}
        /\ spc[s] \in InLoop => endedBy[s] = "running"

\* C1 witness: a bad frame between two good ones gave exactly two responses
\* (frames 1 and 3) and the session is still receiving.
C1_Witness ==
    \E s \in Sessions :
        /\ spc[s] = "recv"
        /\ recvCnt[s] = 3
        /\ raisedCnt[s] = 1
        /\ respSeq[s] = <<1, 3>>

\* C2: under any interleaving the active-session counter of a servicer equals the
\* number of its sessions that have opened and not yet closed; it is never
\* negative and is back at 0 once every session has closed.
C2_CounterMatchesOpenSessions ==
    \A v \in Servicers :
        /\ active_streams[v] =
               Cardinality({s \in Sessions : IsOpen(s) /\ ServicerOf(skind[s]) = v})
        /\ active_streams[v] >= 0
        /\ (\A s \in Sessions : spc[s] \in {"new", "closed"}) => active_streams[v] = 0

\* C2 witness: every session has closed, one of them after an exception, one after
\* a normal end of input, and the counter is back at its initial value.
C2_Witness ==
    /\ \A s \in Sessions : spc[s] = "closed"
    /\ \E s \in Sessions : endedBy[s] = "exception" /\ recvCnt[s] > 0
    /\ \E s \in Sessions : endedBy[s] = "end_of_input"
    /\ \A v \in Servicers : active_streams[v] = 0

\* Positions in which a worker holds an engine it has loaded itself and that
\* _get_model has not yet returned.
HoldsOwnLoad == {"warm", "put_in", "put_move", "put_len", "put_pop", "put_set"}

CachedPaths == {cache[i].path : i \in 1..Len(cache)}

\* The engine objects alive for a model path: the cached one and every one a
\* worker holds in its local `model`.
LiveEngines(k) ==
    {cache[i].eng : i \in {j \in 1..Len(cache) : cache[j].path = k}}
        \cup {cmodel[t] : t \in {u \in Workers : ckey[u] = k /\ cmodel[u] # 0}}

\* C3: for every sequence of acquire calls, also interleaved from concurrent
\* sessions, the number of engines in the model cache never exceeds max_size.
C3_CacheWithinCapacity == Len(cache) <= max_size

\* C4: concurrent acquire calls for the same missing key load its engine exactly
\* once: no two workers hold, at the same time, an engine each has loaded itself
\* for the same key.
C4_SingleLoadPerKey ==
    \A t1, t2 \in Workers :
        (t1 # t2 /\ cpc[t1] \in HoldsOwnLoad /\ cpc[t2] \in HoldsOwnLoad)
            => ckey[t1] # ckey[t2]

C6_OneInstancePerKey ==
    /\ \A task \in Tasks : Cardinality(LiveEngines(ModelPath(task))) <= 1
    /\ \A t1, t2 \in Workers :
           (cpc[t1] = "infer" /\ cpc[t2] = "infer" /\ ckey[t1] = ckey[t2])
               => cmodel[t1] = cmodel[t2]

\* C7: an acquire whose load or warm-up failed ends with HTTPException(503) and
\* has itself changed nothing in the cache: it moved, evicted and inserted no entry.
C7_LoadFailureLeavesCache ==
    \A t \in Workers :
        loadFailed[t] =>
            /\ cpc[t] = "raised"
            /\ cerr[t] = "503"
            /\ ~touched[t]
            /\ ~hit[t]

\* C7 witness: a load failed while the cache was at capacity (an insert would have
\* evicted an entry): the call ended with 503 and every entry is still there.
C7_Witness ==
    \E t \in Workers :
        /\ loadFailed[t]
        /\ cerr[t] = "503"
        /\ Len(cache) = max_size
        /\ ~Has(cache, ckey[t])
        /\ lastEvict = NoEvict

HasTrackEntry(c, id) ==
    c \in DOMAIN track_history /\ id \in DOMAIN track_history[c]

\* C9: when the same track id (> 0) has appeared in every tracking frame of a
\* camera, the response to its n-th appearance reports that track with age n-1,
\* state new (n = 1) or active, and the detection's velocity is the centre minus
\* the centre of the previous appearance ((0,0) on the first).
C9_TrackAgeAndVelocity ==
    \A c \in Cameras :
        (tresp[c] # NoResp /\ tresp[c].frame.track_id > 0 /\ obs[c].n = tframes[c]) =>
            /\ \E i \in DOMAIN tresp[c].tracks :
                   /\ tresp[c].tracks[i].track_id = tresp[c].frame.track_id
                   /\ tresp[c].tracks[i].age = obs[c].n - 1
                   /\ tresp[c].tracks[i].state = IF obs[c].n = 1 THEN "new" ELSE "active"
            /\ \E i \in DOMAIN tresp[c].detections :
                   /\ tresp[c].detections[i].track_id = tresp[c].frame.track_id
                   /\ tresp[c].detections[i].velocity = obs[c].vel

\* C10: a track id seen for a camera and missing from its last 30 frames or fewer
\* still has its entry in the Track State Store; one missing for more than 30
\* frames has none; an id that reappears is reported again (age 0 after deletion).
C10_TrackKeptUntilStale ==
    \A c \in Cameras :
        obs[c].n > 0 =>
            /\ obs[c].unseen <= 30 => HasTrackEntry(c, 7)
            /\ obs[c].unseen > 30 => ~HasTrackEntry(c, 7)
            /\ (tresp[c].frame.track_id = 7) =>
                   \E i \in DOMAIN tresp[c].tracks : tresp[c].tracks[i].track_id = 7

C12_SameCameraUpdatesSerialized ==
    \A c \in Cameras :
        (Cardinality(obs[c].sessions) > 1 /\ obs[c].unseen = 0) =>
            /\ HasTrackEntry(c, 7)
            /\ track_history[c][7].age = obs[c].n - 1
            /\ track_history[c][7].center = obs[c].last

\* C13: a frame whose detections carry a track id <= 0 leaves the Track State
\* Store as it was, and those detections are reported with velocity zero.
C13_UntrackedBypassStore ==
    [][\A c \in Cameras :
          tframes'[c] # tframes[c] =>
              \A i \in DOMAIN tresp'[c].detections :
                  tresp'[c].detections[i].track_id <= 0 =>
                      /\ tresp'[c].detections[i].velocity = <<0, 0>>
                      /\ track_history' = track_history]_vars

\* C13 witness: a response with an untracked detection and no track entry.
C13_Witness ==
    \E c \in Cameras :
        /\ tresp[c] # NoResp
        /\ Len(tresp[c].detections) = 1
        /\ tresp[c].detections[1].track_id = 0
        /\ tresp[c].detections[1].velocity = <<0, 0>>
        /\ ~HasTrackEntry(c, 0)

SeqRange(s) == {s[i] : i \in 1..Len(s)}

\* C14: analyze drops every requested task name that is unknown or not enabled and
\* never fails because of it: it executes exactly the valid requested tasks, or
\* detection alone when none is valid, and raises only for an undecodable image.
C14_InvalidTasksDropped ==
    areq # NoAnalyze =>
        LET requested == {Lower(n) : n \in SeqRange(areq.tasks)} \cap enabled_tasks
        IN  /\ ares.raised <=> ~areq.decodable
            /\ ~ares.raised =>
                   SeqRange(ares.tasks_executed) =
                       IF requested = {} THEN {"detect"} ELSE requested

\* C14 witness: detect, pose, bogus were requested; detect and pose were executed.
C14_Witness ==
    /\ areq # NoAnalyze
    /\ areq.tasks = <<"detect", "pose", "bogus">>
    /\ ~ares.raised
    /\ SeqRange(ares.tasks_executed) = {"detect", "pose"}

CanonicalRank(t) ==
    CASE t = "segment" -> 1
      [] t = "obb" -> 2
      [] t = "detect" -> 3
      [] t = "pose" -> 4
      [] OTHER -> 5

\* C15: whatever the order of the request, the tasks are executed and their
\* layers drawn in the order segmentation, oriented-box, detection, pose,
\* classification; pose is the last layer drawn. The sort gives that order also
\* to a list with classification in it.
C15_CanonicalDrawOrder ==
    (areq # NoAnalyze /\ ~ares.raised) =>
        /\ \A i \in 1..Len(ares.tasks_executed), j \in 1..Len(ares.tasks_executed) :
               i < j => CanonicalRank(ares.tasks_executed[i])
                            <= CanonicalRank(ares.tasks_executed[j])
        /\ \A i \in 1..Len(ares.drawn), j \in 1..Len(ares.drawn) :
               i < j => CanonicalRank(ares.drawn[i]) <= CanonicalRank(ares.drawn[j])
        /\ "pose" \in SeqRange(ares.drawn) => ares.drawn[Len(ares.drawn)] = "pose"
        /\ LET known == SelectSeq([i \in 1..Len(areq.tasks) |-> Lower(areq.tasks[i])],
                                  LAMBDA n : n \in Tasks)
               order == SortedTasks(known)
           IN  \A i \in 1..Len(order), j \in 1..Len(order) :
                   i < j => CanonicalRank(order[i]) <= CanonicalRank(order[j])

\* C15 witness: pose, detect, segment requested in that order; drawn as segment,
\* detect, pose.
C15_Witness ==
    /\ areq # NoAnalyze
    /\ areq.tasks = <<"pose", "detect", "segment">>
    /\ ares.drawn = <<"segment", "detect", "pose">>

\* C16: a task that raises is recorded as an error result; every other valid task
\* of the frame still runs and has its own result, and analyze returns normally.
C16_TaskFailureContained ==
    (areq # NoAnalyze /\ areq.decodable) =>
        /\ ~ares.raised
        /\ DOMAIN ares.tasks = SeqRange(ares.tasks_executed)
        /\ \A t \in SeqRange(ares.tasks_executed) :
               /\ areq.outcome[t] = "raises" => ares.tasks[t] = [error |-> t]
               /\ areq.outcome[t] = "ok" => ares.tasks[t] = [result |-> t]

\* C16 witness: detect raised, pose and segment ran and have their results.
C16_Witness ==
    /\ areq # NoAnalyze
    /\ areq.tasks = <<"detect", "pose", "segment">>
    /\ areq.outcome["detect"] = "raises"
    /\ ares.tasks_executed = <<"segment", "detect", "pose">>
    /\ ares.tasks["detect"] = [error |-> "detect"]
    /\ ares.tasks["pose"] = [result |-> "pose"]
    /\ ares.tasks["segment"] = [result |-> "segment"]

C18_ResponsesInRequestOrder ==
    \A s \in Sessions :
        /\ \A i \in 1..Len(respSeq[s]) : respSeq[s][i] \in 1..recvCnt[s]
        /\ \A i \in 1..Len(respSeq[s]), j \in 1..Len(respSeq[s]) :
               i < j => respSeq[s][i] < respSeq[s][j]

\* C18 witness: three frames received, the first dropped, responses 2 and 3 in order.
C18_Witness ==
    \E s \in Sessions :
        /\ recvCnt[s] = 3
        /\ respSeq[s] = <<2, 3>>

\* C19: a frame processed while the last configured class list is the explicit
\* empty one, and without a filter of its own, runs detection over all classes.
C19_ClearedFilterDetectsAll ==
    (used # NoUse /\ used.cleared /\ used.request.classes_filter = <<>>) =>
        ~used.class_ids.set

PoseTrusted(n) == pin.pts[n].conf > 30

PoseY(n) == pin.pts[n].xy[2]

PoseFull == pin # NoPose /\ pin.nk >= 17 /\ pin.nc >= 17

\* Every trusted keypoint is a point with both coordinates.
PoseWellFormed == \A n \in UsedKeypoints : PoseTrusted(n) => Len(pin.pts[n].xy) = 2

HipKnown == PoseTrusted("left_hip") /\ PoseTrusted("right_hip")

ShoulderKnown == PoseTrusted("left_shoulder") /\ PoseTrusted("right_shoulder")

AnkleKnown == PoseTrusted("left_ankle") /\ PoseTrusted("right_ankle")

Hip2 == PoseY("left_hip") + PoseY("right_hip")

Shoulder2 == PoseY("left_shoulder") + PoseY("right_shoulder")

Ankle2 == PoseY("left_ankle") + PoseY("right_ankle")

TableFallen ==
    /\ PoseTrusted("nose") /\ HipKnown
    /\ \A n \in {"nose", "left_hip", "right_hip"} : Len(pin.pts[n].xy) = 2
    /\ 2 * PoseY("nose") > Hip2 + 100

TableCrouching ==
    /\ ShoulderKnown /\ HipKnown /\ AnkleKnown
    /\ 2 * Abs(Hip2 - Shoulder2) > 3 * Abs(Ankle2 - Hip2)
    /\ Abs(Ankle2 - Hip2) < 200

TableLying ==
    /\ ShoulderKnown /\ HipKnown /\ AnkleKnown
    /\ Abs(Shoulder2 - Hip2) < 60

TableArmsRaised ==
    /\ ShoulderKnown
    /\ PoseTrusted("left_wrist") /\ PoseTrusted("right_wrist")
    /\ 2 * PoseY("left_wrist") < Shoulder2 - 100
    /\ 2 * PoseY("right_wrist") < Shoulder2 - 100

C23_FallenRule ==
    pin # NoPose =>
        /\ (PoseFull /\ PoseWellFormed /\ TableFallen) =>
               (pout.class = "fallen" /\ pout.confidence = 90)
        /\ ~(PoseFull /\ TableFallen) => pout.class # "fallen"

\* C23 witness: nose at 300 and hips at 200 while the crouching rule matches too.
C23_Witness ==
    /\ PoseFull /\ PoseWellFormed
    /\ PoseTrusted("nose") /\ PoseY("nose") = 300
    /\ HipKnown /\ Hip2 = 400
    /\ TableCrouching
    /\ pout.class = "fallen"
    /\ pout.confidence = 90

\* C24: fewer than 17 keypoints or fewer than 17 confidences give label unknown,
\* confidence 0 and empty metrics.
C24_ShortInputUnknown ==
    (pin # NoPose /\ (pin.nk < 17 \/ pin.nc < 17)) =>
        pout = [class |-> "unknown", confidence |-> 0, metrics |-> {}]

\* C24 witness: 17 keypoints with only 16 confidences.
C24_Witness ==
    /\ pin # NoPose
    /\ pin.nk = 17
    /\ pin.nc = 16
    /\ pout.class = "unknown"

\* C26: classify never raises; when a trusted keypoint that the metrics read has
\* no Y coordinate, the result is label unknown with confidence 0.
C26_ClassifyNeverRaises ==
    pin # NoPose =>
        /\ pout.class \in {"unknown", "fallen", "crouching", "lying", "arms_raised",
                           "standing"}
        /\ (PoseFull /\ \E n \in {"nose", "left_wrist", "right_wrist"} :
                            PoseTrusted(n) /\ Len(pin.pts[n].xy) < 2) =>
               (pout.class = "unknown" /\ pout.confidence = 0)
        /\ (PoseFull /\ HipKnown /\ \E n \in {"left_hip", "right_hip"} :
                                       Len(pin.pts[n].xy) < 2) =>
               (pout.class = "unknown" /\ pout.confidence = 0)
        /\ (PoseFull /\ ShoulderKnown /\ \E n \in {"left_shoulder", "right_shoulder"} :
                                            Len(pin.pts[n].xy) < 2) =>
               (pout.class = "unknown" /\ pout.confidence = 0)
        /\ (PoseFull /\ AnkleKnown /\ \E n \in {"left_ankle", "right_ankle"} :
                                         Len(pin.pts[n].xy) < 2) =>
               (pout.class = "unknown" /\ pout.confidence = 0)

\* C26 witness: the left ankle has no Y coordinate while the fall rule's keypoints
\* are in place; the result is unknown.
C26_Witness ==
    /\ PoseFull
    /\ AnkleKnown /\ Len(pin.pts["left_ankle"].xy) < 2
    /\ PoseTrusted("nose") /\ Len(pin.pts["nose"].xy) = 2
    /\ pout.class = "unknown"
    /\ pout.confidence = 0

\* C25: the pose task produces exactly one alert per pose whose label is in the
\* configured alert set and none otherwise, in pose order; the alert names the
\* label, carries the pose's position in the pose list and the pose's confidence,
\* and has severity high exactly when the label is fallen; the response of the
\* frame lists the types of this frame's alerts and no others.
C25_OneAlertPerAlertingPose ==
    presp # NoPose =>
        LET poses == presp.result.poses
            alerts == presp.result.alerts
            alerting == {i \in 1..Len(poses) : poses[i].pose_class \in alert_on_poses}
        IN /\ Len(poses) = Len(presp.frame)
           /\ Len(alerts) = Cardinality(alerting)
           /\ \A i \in alerting :
                  Cardinality({k \in 1..Len(alerts) : alerts[k].pose_index = i - 1}) = 1
           /\ \A k \in 1..Len(alerts) :
                  LET i == alerts[k].pose_index + 1
                  IN /\ i \in alerting
                     /\ alerts[k].type = poses[i].pose_class \o "_detected"
                     /\ alerts[k].confidence = poses[i].pose_confidence
                     /\ (alerts[k].severity = "high") <=> (poses[i].pose_class = "fallen")
                     /\ alerts[k].severity \in {"high", "medium"}
           /\ presp.alerts = [k \in 1..Len(alerts) |-> alerts[k].type]

\* C25 witness: a frame with a standing, a crouching and a fallen person answers
\* with two alerts, for poses 1 and 2, the second of severity high.
C25_Witness ==
    /\ presp # NoPose
    /\ Len(presp.result.poses) = 3
    /\ presp.result.poses[1].pose_class = "standing"
    /\ presp.alerts = <<"crouching_detected", "fallen_detected">>
    /\ presp.result.alerts[1].pose_index = 1
    /\ presp.result.alerts[2].severity = "high"

\* C21: after a successful Configure every frame that starts later is processed
\* with the servicer's settings as Configure left them: the confidence threshold
\* (unless the frame carries its own), the IoU threshold, tracking on or off and
\* the tracker kind, and the class filter (unless the frame carries its own).
C21_ConfigureTakesEffect ==
    (used # NoUse /\ cresp # NoConfigure /\ cresp.success) =>
        /\ used.conf = IF used.request.conf_threshold > 0
                       THEN used.request.conf_threshold ELSE conf_threshold
        /\ used.iou = <<iou_threshold>>
        /\ (used.handler = "DetectStream") =>
               /\ used.use_tracking = (used.request.enable_tracking /\ tracking_enabled)
               /\ used.use_tracking => used.tracker = <<tracker_type>>
        /\ used.class_ids =
               GetClassIds(IF used.request.classes_filter # <<>>
                           THEN ListOf(used.request.classes_filter)
                           ELSE classes_filter)

\* C28: Configure changes only the settings its request carries; a request with
\* no class list leaves the class filter as it was.
C28_OnlyCarriedSettingsChange ==
    [][\A req \in ConfigureRequests :
          Configure(req) =>
              /\ ~req.has_conf => conf_threshold' = conf_threshold
              /\ ~HasField(req, "iou_threshold") => iou_threshold' = iou_threshold
              /\ ~HasField(req, "enable_tracking") => tracking_enabled' = tracking_enabled
              /\ ~HasField(req, "tracker_type") => tracker_type' = tracker_type
              /\ req.classes = <<>> => classes_filter' = classes_filter]_vars

\* C29: a Configure answered with success=false leaves every setting of the
\* servicer as it was before the call.
C29_ConfigureAllOrNothing ==
    [][\A req \in ConfigureRequests :
          (Configure(req) /\ ~cresp'.success) =>
              UNCHANGED <<conf_threshold, iou_threshold, tracking_enabled, tracker_type,
                          classes_filter>>]_vars

C30_OnlyWarmedEnginesVisible ==
    /\ \A t \in Workers :
           cpc[t] = "warm" =>
               /\ cmodel[t] # 0
               /\ \A i \in 1..Len(cache) : cache[i].eng # cmodel[t]
               /\ \A u \in Workers \ {t} : cmodel[u] # cmodel[t]
    /\ \A t \in Workers :
           cpc[t] = "infer" =>
               /\ cmodel[t] # 0
               /\ \A u \in Workers : cpc[u] \in {"load", "warm"} => cmodel[u] # cmodel[t]

\* C30 witness: one worker is still warming up its engine for a key while the
\* other worker has been handed a complete engine for the same key, which is the
\* one in the cache.
C30_Witness ==
    \E t \in Workers, u \in Workers :
        /\ cpc[t] = "warm"
        /\ cpc[u] = "infer"
        /\ ckey[u] = ckey[t]
        /\ cmodel[u] # cmodel[t]
        /\ Has(cache, ckey[u])
        /\ EngOf(cache, ckey[u]) = cmodel[u]

\* A session's last step: it goes from holding the lock in `finally` to closed.
Closes(s) == spc[s] = "close_locked" /\ spc'[s] = "closed"

\* What is common to both readings of C31: the session closes, nothing is
\* received or emitted once the loop is left, and the counter goes down by one in
\* the closing step of a session, and in no other step.
EndedSessionCloses ==
    /\ \A s \in Sessions : (endedBy[s] # "running") ~> (spc[s] = "closed")
    /\ [][\A s \in Sessions :
             /\ endedBy[s] # "running" =>
                    (recvCnt'[s] = recvCnt[s] /\ respSeq'[s] = respSeq[s])
             /\ spc'[s] = "closed" => (spc[s] = "closed" \/ Closes(s))
             /\ Closes(s) =>
                    /\ endedBy[s] # "running"
                    /\ cur[s] = NoReq
                    /\ active_streams'[ServicerOf(skind[s])] =
                           active_streams[ServicerOf(skind[s])] - 1]_vars
    /\ [][\A v \in Servicers :
             active_streams'[v] < active_streams[v] =>
                 \E s \in Sessions : Closes(s) /\ ServicerOf(skind[s]) = v]_vars

C32_LiveSessionsDistinctIds ==
    \A s \in Sessions, u \in Sessions :
        (s # u /\ IsOpen(s) /\ IsOpen(u) /\ ServicerOf(skind[s]) = ServicerOf(skind[u]))
            => stream_id[s] # stream_id[u]

\* C33: with shoulder, hip and ankle centres known and neither the crouching nor
\* the lying condition true, the label is arms_raised when both wrists are trusted
\* and more than 50 pixels above the shoulder centre, and standing otherwise; a
\* wrist with confidence <= 0.3 never gives arms_raised.
C33_ArmsRaisedNeedsTrustedWrists ==
    /\ (PoseFull /\ PoseWellFormed /\ ShoulderKnown /\ HipKnown /\ AnkleKnown
            /\ ~TableFallen /\ ~TableCrouching /\ ~TableLying) =>
           pout.class = IF TableArmsRaised THEN "arms_raised" ELSE "standing"
    /\ (PoseFull /\ ~(PoseTrusted("left_wrist") /\ PoseTrusted("right_wrist"))) =>
           pout.class # "arms_raised"

\* C34: analyze runs each task at most once per call: no task is executed twice
\* and no layer is drawn twice, whatever the task list of the request.
C34_EachTaskRunsOnce ==
    (areq # NoAnalyze /\ ~ares.raised) =>
        /\ \A i \in 1..Len(ares.tasks_executed), j \in 1..Len(ares.tasks_executed) :
               i # j => ares.tasks_executed[i] # ares.tasks_executed[j]
        /\ \A i \in 1..Len(ares.drawn), j \in 1..Len(ares.drawn) :
               i # j => ares.drawn[i] # ares.drawn[j]

\* A decodable frame in region-of-interest mode has been handled.
RegionFrame ==
    /\ rreq # NoFace
    /\ rreq.scene.decodable
    /\ rreq.person_regions # <<>>

\* Face n of the frame lies inside region i of the request, clipped to the frame.
FaceInRegion(n, i) ==
    /\ ~EmptyCrop(CropOf(rreq.person_regions[i]))
    /\ InsideCrop(rreq.scene.faces[n], CropOf(rreq.person_regions[i]))

RegionFrameWithFace ==
    /\ RegionFrame
    /\ \E i \in DOMAIN rreq.person_regions, n \in DOMAIN rreq.scene.faces : FaceInRegion(n, i)

\* The face of the frame that entry k of the response is about.
SceneFaceOf(k) ==
    CHOOSE f \in {rreq.scene.faces[n] : n \in DOMAIN rreq.scene.faces} :
        f.bbox = rresp.faces[k].bbox

\* C35: in region-of-interest mode every face inside region i (clipped to the
\* frame, empty regions skipped) is reported with its full-frame box and the
\* i-th supplied track id, or 0 when there is no i-th id; nothing else is reported.
C35_RegionFacesReported ==
    /\ RegionFrameWithFace => rresp.kind = "response"
    /\ (RegionFrame /\ rresp.kind = "response") =>
          /\ \A i \in DOMAIN rreq.person_regions, n \in DOMAIN rreq.scene.faces :
                 FaceInRegion(n, i) =>
                     \E k \in DOMAIN rresp.faces :
                         /\ rresp.faces[k].bbox = rreq.scene.faces[n].bbox
                         /\ rresp.faces[k].associated_track_id =
                                IF i <= Len(rreq.person_track_ids)
                                THEN rreq.person_track_ids[i] ELSE 0
          /\ \A k \in DOMAIN rresp.faces :
                 \E i \in DOMAIN rreq.person_regions, n \in DOMAIN rreq.scene.faces :
                     /\ FaceInRegion(n, i)
                     /\ rresp.faces[k].bbox = rreq.scene.faces[n].bbox

\* C36: in every mode a reported face that is compared with the registry is
\* known exactly when its best similarity reaches the request's threshold if
\* that is > 0, and the configured default otherwise.
C36_ResolvedThresholdApplied ==
    (rreq # NoFace /\ rresp.kind = "response" /\ known_faces # <<>>) =>
        \A k \in DOMAIN rresp.faces :
            SceneFaceOf(k).embedding # NoEmbedding =>
                (rresp.faces[k].is_known <=>
                    BestOver(SceneFaceOf(k).embedding, known_faces, "", 0).best_similarity
                        >= ResolvedThreshold(rreq, similarity_threshold))

\* C37: a region-of-interest frame in which a face is found gets a response,
\* whatever the registry holds, and each reported face carries the identity,
\* similarity and known flag that the full-frame rule gives under the frame's
\* threshold.
C37_RegionFrameMatchedLikeFullFrame ==
    RegionFrameWithFace =>
        /\ rresp.kind = "response"
        /\ \A k \in DOMAIN rresp.faces :
               LET full == MatchFullFrame(SceneFaceOf(k), known_faces,
                                          ResolvedThreshold(rreq, similarity_threshold))
               IN  /\ rresp.faces[k].identity = full.identity
                   /\ rresp.faces[k].similarity = full.similarity
                   /\ rresp.faces[k].is_known = full.is_known

\* C38: the feature cache never holds more than max_cache_size cameras.
C38_CacheWithinMaxSize == Len(feature_cache) <= max_cache_size

====
